---------------------------- MODULE Spec2Model ----------------------------
(***************************************************************************)
(* Model of the honda-calphad analysis scripts.                            *)
(*                                                                         *)
(* Every script is a sequential program.  One behaviour of the model is    *)
(* one run of one script: Init picks the script (prog) and the behaviour   *)
(* of the external collaborators it talks to (the raw files on disk, the   *)
(* thermodynamic service), and the actions are the script's steps.         *)
(*                                                                         *)
(* Floating point numbers are modelled as exact rationals <<n, d>> with    *)
(* d > 0 in lowest terms; energies are in J or kJ as in the source.        *)
(***************************************************************************)
EXTENDS Integers, Sequences, FiniteSets, TLC

VARIABLES
    prog,       \* the script this behaviour runs
    pc,         \* position in the script
    \* ---- data/process_tc_data.py
    fIdx,       \* index of the next file in the list being walked
    present,    \* raw files found to exist so far (the file system, as seen)
    skipped,    \* raw files for which "Skipping ... (not found)" was printed
    written,    \* names of the processed CSV files written so far
    lastOut,    \* the last processed CSV written: its name, columns and rows
    \* ---- simulations/tcpython/extract_oxide_gibbs.py
    svc,        \* what the thermodynamic service returns in this run
    oxIdx,      \* position in OXIDES
    tIdx,       \* position in temperatures
    G_O2,       \* dict T -> O2 reference energy
    G_metal,    \* dict T -> metal reference energy of the current oxide
    results,    \* dict T -> dict column -> value
    csv,        \* oxide_gibbs_energies.csv as written
    \* ---- simulations/tcpython/cu_al_o_phase_stability.py
    cIdx,       \* position in TEMPERATURES_C
    caResults,  \* the list of rows
    caCsv,      \* cu_al_o_phases.csv as written
    \* ---- simulations/pycalphad/cu_ceramic_affinity.py
    affOxides,      \* the oxides dict of ellingham_comparison, as <<name, value>> pairs
    sorted_oxides,  \* its sorted list
    affPlot,        \* the lines drawn by plot_ellingham
    \* ---- simulations/pycalphad/cu_ceramic_thermodynamics.py
    thSlider,   \* temp_slider.value (degrees C)
    thSelected, \* oxide_selector.value
    rankings,   \* the ranking table shown
    \* ---- simulations/pycalphad/compute_cu_o_data.py
    cuoCalls,   \* the calculate() requests made to pycalphad
    df,         \* the DataFrame
    cuoCsv,     \* cu_o_gibbs_energies.csv as written
    \* ---- the sulfide exchange example (cu_ceramic_affinity.py and the notebook cell)
    sulfide_temp,   \* sulfide_temp.value (degrees C)
    sulfide,        \* the energies computed and the verdict shown
    \* ---- notebooks/cu_o_visualization.py and pycalphad/cu_o_visualization.py
    vizDf,      \* the DataFrame the notebook loaded: its source, columns and rows
    \* ---- one call of a function on its own
    callArgs,   \* the arguments of the call
    callRet     \* what the call returned

tcVars == <<fIdx, present, skipped, written, lastOut>>
exVars == <<oxIdx, tIdx, G_O2, G_metal, results, csv>>
caVars == <<cIdx, caResults, caCsv>>
affVars == <<affOxides, sorted_oxides, affPlot>>
thVars == <<thSlider, thSelected, rankings>>
cuoVars == <<cuoCalls, df, cuoCsv>>
sfVars == <<sulfide_temp, sulfide>>
vizVars == <<vizDf>>
fnVars == <<callArgs, callRet>>
vars == <<prog, pc, svc, tcVars, exVars, caVars, affVars, thVars, cuoVars, sfVars, vizVars,
          fnVars>>

---------------------------------------------------------------------------
(* Exact rational arithmetic standing for Python float arithmetic.         *)

Abs(x) == IF x < 0 THEN -x ELSE x

RECURSIVE GCD(_, _)
GCD(a, b) == IF b = 0 THEN a ELSE GCD(b, a % b)

\* n/d in lowest terms, d > 0
Rat(n, d) == LET g == GCD(Abs(n), d) IN <<n \div g, d \div g>>

RatInt(n) == <<n, 1>>

RatAdd(a, b) == Rat(a[1] * b[2] + b[1] * a[2], a[2] * b[2])

RatNeg(a) == <<-a[1], a[2]>>

RatSub(a, b) == RatAdd(a, RatNeg(b))

\* cross-cancelled product, so that intermediate values stay small
RatMul(a, b) ==
    LET g1 == GCD(Abs(a[1]), b[2])
        g2 == GCD(Abs(b[1]), a[2])
    IN  Rat((a[1] \div g1) * (b[1] \div g2), (a[2] \div g2) * (b[2] \div g1))

RatInv(a) == IF a[1] > 0 THEN <<a[2], a[1]>> ELSE <<-a[2], -a[1]>>

RatDiv(a, b) == RatMul(a, RatInv(b))

RatLt(a, b) == a[1] * b[2] < b[1] * a[2]

\* the literal 273.15
KelvinOffset == Rat(27315, 100)

\* the literal 1000 (J per kJ)
JPerKJ == RatInt(1000)

---------------------------------------------------------------------------
(* Python str helpers on TLA+ strings.                                     *)

Lower == <<"a","b","c","d","e","f","g","h","i","j","k","l","m",
           "n","o","p","q","r","s","t","u","v","w","x","y","z">>
UpperOf == <<"A","B","C","D","E","F","G","H","I","J","K","L","M",
             "N","O","P","Q","R","S","T","U","V","W","X","Y","Z">>

UpperChar(c) ==
    IF \E i \in 1..26 : Lower[i] = c
    THEN UpperOf[CHOOSE i \in 1..26 : Lower[i] = c]
    ELSE c

RECURSIVE StrUpper(_)
StrUpper(s) ==
    IF Len(s) = 0 THEN s
    ELSE UpperChar(SubSeq(s, 1, 1)) \o StrUpper(SubSeq(s, 2, Len(s)))

RECURSIVE StrStrip(_)
StrStrip(s) ==
    IF Len(s) = 0 THEN s
    ELSE IF SubSeq(s, 1, 1) = " " THEN StrStrip(SubSeq(s, 2, Len(s)))
    ELSE IF SubSeq(s, Len(s), Len(s)) = " " THEN StrStrip(SubSeq(s, 1, Len(s) - 1))
    ELSE s

\* Python's  pat in s
StrIn(pat, s) ==
    \E i \in 1..(Len(s) - Len(pat) + 1) : SubSeq(s, i, i + Len(pat) - 1) = pat

\* s.replace('.txt', '_processed.csv') for a name ending in .txt
OutName(filename) == SubSeq(filename, 1, Len(filename) - 4) \o "_processed.csv"

\* first element of [c for c in cols if ch in c.upper()], or 0 when the list is empty
FirstWith(ch, cols) ==
    IF \E i \in 1..Len(cols) : StrIn(ch, StrUpper(cols[i]))
    THEN CHOOSE i \in 1..Len(cols) :
            /\ StrIn(ch, StrUpper(cols[i]))
            /\ \A j \in 1..(i - 1) : ~StrIn(ch, StrUpper(cols[j]))
    ELSE 0

---------------------------------------------------------------------------
(* data/process_tc_data.py                                                 *)

\* the oxides list of __main__: raw export file and O2 factor
\* the oxides list with the factor of Al2O3 copied from its neighbours
TcOxides_CopiedFactor ==
    [i \in 1..7 |->
        [file |-> <<"cu2o_dGf_1273-1873K.txt", "cuo_dGf_1273-1873K.txt",
                    "al2o3_dGf_1273-1873K.txt", "mgo_dGf_1273-1873K.txt",
                    "sio2_dGf_1273-1873K.txt", "tio2_dGf_1273-1873K.txt",
                    "feo_dGf_1273-1873K.txt">>[i],
         o2_factor |-> IF i \in {5, 6} THEN Rat(1, 1) ELSE Rat(1, 2)]]

TcOxides == <<
    [file |-> "cu2o_dGf_1273-1873K.txt",  o2_factor |-> Rat(1, 2)],
    [file |-> "cuo_dGf_1273-1873K.txt",   o2_factor |-> Rat(1, 2)],
    [file |-> "al2o3_dGf_1273-1873K.txt", o2_factor |-> Rat(3, 2)],
    [file |-> "mgo_dGf_1273-1873K.txt",   o2_factor |-> Rat(1, 2)],
    [file |-> "sio2_dGf_1273-1873K.txt",  o2_factor |-> Rat(1, 1)],
    [file |-> "tio2_dGf_1273-1873K.txt",  o2_factor |-> Rat(1, 1)],
    [file |-> "feo_dGf_1273-1873K.txt",   o2_factor |-> Rat(1, 2)] >>

\* the activity_files list of __main__
TcActivityFiles == <<
    "fe-cu_activity-vs-xcu_1873K.txt",
    "fe-cu_activity-vs-T_xcu003.txt" >>

TcAllFiles ==
    {TcOxides[i].file : i \in 1..Len(TcOxides)}
        \cup {TcActivityFiles[i] : i \in 1..Len(TcActivityFiles)}

\* longest table a raw export holds in the model
MaxRows == 1

\* the data rows a raw export holds in the model: two cells (K or J/mol) each
RawRows == {<<1873, -340500>>}

\* column headers a raw export has in the model, as read by pandas (before strip)
RawHeaders == {
    <<"T", "GM">>,
    <<" t [K] ", " g [J/mol]">>,
    <<"GM", "T">>,
    <<"GM(TENORITE)", "T">>,
    <<"H", "T">>,
    <<"X", "GM">> }

RawRowLists ==
    UNION {[1..n -> RawRows] : n \in 0..MaxRows}

\* what pd.read_csv finds in a raw export that exists: a table, or a parse error
RawContents ==
    {[kind |-> "table", columns |-> h, rows |-> r] : h \in RawHeaders, r \in RawRowLists}
        \cup {[kind |-> "parse_error", columns |-> <<>>, rows |-> <<>>]}

NoFile == [name |-> "", columns |-> <<>>, rows |-> <<>>]

\* df.columns = [c.strip() for c in df.columns]
StripColumns(cols) == [i \in 1..Len(cols) |-> StrStrip(cols[i])]

\* a conversion with the rounded offset 273
KelvinToCelsius_273(tk) == RatSub(tk, RatInt(273))

KelvinToCelsius(tk) == RatSub(tk, KelvinOffset)

JToKJ(gj) == RatDiv(gj, JPerKJ)

\* a normalisation that multiplies by the factor
PerMolO2_Times(g, o2_factor) == RatMul(g, o2_factor)

PerMolO2(g, o2_factor) == RatDiv(g, o2_factor)

\* one row of the processed table built by process_oxide
OxideOutRow(row, t, g, o2_factor) ==
    LET T_K   == RatInt(row[t])
        GM_J  == RatInt(row[g])
        GM_kJ == JToKJ(GM_J)
    IN  [T_K   |-> T_K,
         T_C   |-> KelvinToCelsius(T_K),
         GM_J  |-> GM_J,
         GM_kJ |-> GM_kJ,
         dGf_kJ_per_molO2 |-> PerMolO2(GM_kJ, o2_factor)]

OxideOutColumns == <<"T_K", "T_C", "GM_J", "GM_kJ", "dGf_kJ_per_molO2">>

\* an uncaught exception ends the run; the traceback names where it was raised
Crash == pc' = "crashed@" \o pc

Crashed == Len(pc) > 8 /\ SubSeq(pc, 1, 8) = "crashed@"

\* what a step of each script leaves alone: the other scripts' state
TcFrame  == UNCHANGED <<prog, svc, exVars, caVars, affVars, thVars, cuoVars, sfVars, vizVars, fnVars>>
ExFrame  == UNCHANGED <<prog, svc, tcVars, caVars, affVars, thVars, cuoVars, sfVars, vizVars, fnVars>>
CaFrame  == UNCHANGED <<prog, svc, tcVars, exVars, affVars, thVars, cuoVars, sfVars, vizVars, fnVars>>
AffFrame == UNCHANGED <<prog, svc, tcVars, exVars, caVars, thVars, cuoVars, sfVars, vizVars, fnVars>>
ThFrame  == UNCHANGED <<prog, svc, tcVars, exVars, caVars, affVars, cuoVars, sfVars, vizVars, fnVars>>
CuoFrame == UNCHANGED <<prog, svc, tcVars, exVars, caVars, affVars, thVars, sfVars, vizVars, fnVars>>
SfFrame  == UNCHANGED <<prog, svc, tcVars, exVars, caVars, affVars, thVars, cuoVars, vizVars, fnVars>>
VizFrame == UNCHANGED <<prog, svc, tcVars, exVars, caVars, affVars, thVars, cuoVars, sfVars, fnVars>>
FnFrame  == UNCHANGED <<prog, svc, tcVars, exVars, caVars, affVars, thVars, cuoVars, sfVars, vizVars>>

\* process_oxide(filename, o2_factor): the file is absent
ProcessOxideAbsent(ox) ==
    /\ skipped' = skipped \cup {ox.file}
    /\ UNCHANGED <<present, written, lastOut>>

\* process_oxide(filename, o2_factor): the file exists and holds `raw`.
\* Yields FALSE for the run's continuation when an exception escapes.
ProcessOxidePresent(ox, raw, next) ==
    /\ present' = present \cup {ox.file}
    /\ UNCHANGED skipped
    /\ IF raw.kind = "parse_error"
       THEN Crash /\ UNCHANGED <<fIdx, written, lastOut>>
       ELSE LET cols  == StripColumns(raw.columns)
                t_col == FirstWith("T", cols)
                g_col == FirstWith("G", cols)
            IN  IF t_col = 0 \/ g_col = 0
                THEN Crash /\ UNCHANGED <<fIdx, written, lastOut>>
                ELSE /\ lastOut' =
                          [name    |-> OutName(ox.file),
                           columns |-> OxideOutColumns,
                           rows    |-> [i \in 1..Len(raw.rows) |->
                                          OxideOutRow(raw.rows[i], t_col, g_col, ox.o2_factor)]]
                     /\ written' = written \cup {OutName(ox.file)}
                     /\ next

\* the position after the oxide loop body for file fIdx
AfterOxide ==
    IF fIdx < Len(TcOxides)
    THEN fIdx' = fIdx + 1 /\ pc' = "tc_oxides"
    ELSE fIdx' = 1 /\ pc' = "tc_activity"

AfterActivity ==
    IF fIdx < Len(TcActivityFiles)
    THEN fIdx' = fIdx + 1 /\ pc' = "tc_activity"
    ELSE fIdx' = fIdx /\ pc' = "tc_done"

\* for filename, o2_factor in oxides: process_oxide(filename, o2_factor)
TcOxideSkip ==
    /\ TcFrame
    /\ prog = "process_tc_data" /\ pc = "tc_oxides"
    /\ ProcessOxideAbsent(TcOxides[fIdx])
    /\ AfterOxide

TcOxideProcess ==
    /\ TcFrame
    /\ prog = "process_tc_data" /\ pc = "tc_oxides"
    /\ \E raw \in RawContents : ProcessOxidePresent(TcOxides[fIdx], raw, AfterOxide)

\* process_activity(filename): the file is absent
ProcessActivityAbsent(filename) ==
    /\ skipped' = skipped \cup {filename}
    /\ UNCHANGED <<present, written, lastOut>>

\* process_activity(filename): the file exists and holds `raw`
ProcessActivityPresent(filename, raw, next) ==
    /\ present' = present \cup {filename}
    /\ UNCHANGED skipped
    /\ IF raw.kind = "parse_error"
       THEN Crash /\ UNCHANGED <<fIdx, written, lastOut>>
       ELSE /\ lastOut' = [name    |-> OutName(filename),
                           columns |-> StripColumns(raw.columns),
                           rows    |-> raw.rows]
            /\ written' = written \cup {OutName(filename)}
            /\ next

\* for filename in activity_files: process_activity(filename)
TcActivitySkip ==
    /\ TcFrame
    /\ prog = "process_tc_data" /\ pc = "tc_activity"
    /\ ProcessActivityAbsent(TcActivityFiles[fIdx])
    /\ AfterActivity

TcActivityProcess ==
    /\ TcFrame
    /\ prog = "process_tc_data" /\ pc = "tc_activity"
    /\ \E raw \in RawContents :
          ProcessActivityPresent(TcActivityFiles[fIdx], raw, AfterActivity)

TcInit ==
    /\ fIdx = 1
    /\ present = {}
    /\ skipped = {}
    /\ written = {}
    /\ lastOut = NoFile

---------------------------------------------------------------------------
(* Cells of the result tables: Python values of mixed type.                *)

Num(r)  == [t |-> "num",  v |-> r,         s |-> ""]
Str(x)  == [t |-> "str",  v |-> RatInt(0), s |-> x]
NoneV   == [t |-> "none", v |-> RatInt(0), s |-> ""]

\* Python truthiness of a cell value (None, 0.0 and '' are falsy)
Truthy(c) ==
    CASE c.t = "num"  -> c.v[1] # 0
      [] c.t = "str"  -> c.s # ""
      [] OTHER        -> FALSE

\* d[k] = v on a dict
Put(d, k, v) == [x \in DOMAIN d \cup {k} |-> IF x = k THEN v ELSE d[x]]

\* d.get(k, "")
GetOrEmpty(d, k) == IF k \in DOMAIN d THEN d[k] ELSE Str("")

EmptyDict == [x \in {} |-> NoneV]

\* what csv.DictWriter writes for a value: None becomes the empty field,
\* a number its decimal literal, a string itself
\* numbers written without their decimals
CsvField_Truncated(c) ==
    CASE c.t = "none" -> Str("")
      [] c.t = "num"  -> [t |-> "lit", v |-> RatInt(c.v[1] \div c.v[2]), s |-> ""]
      [] OTHER        -> c

CsvField(c) ==
    CASE c.t = "none" -> Str("")
      [] c.t = "num"  -> [t |-> "lit", v |-> c.v, s |-> ""]
      [] OTHER        -> c

\* Reading a CSV back with pandas, as ellingham_diagram.py line 66 and
\* cu_o_visualization.py line 87 do.

\* the missing value of pandas
NaN == [t |-> "nan", v |-> RatInt(0), s |-> ""]

\* field texts pd.read_csv takes as missing by default
PandasNaStrings == {"", "NA", "N/A", "NaN", "nan", "NULL", "null", "n/a", "None", "<NA>"}

\* pd.read_csv on one field: an empty or NA text is missing, a numeric literal is
\* the number, any other text is itself
ReadCsvField(f) ==
    CASE f.t = "lit" -> Num(f.v)
      [] f.t = "str" /\ f.s \in PandasNaStrings -> NaN
      [] OTHER -> f

NoCsv == [written |-> FALSE, header |-> <<>>, rows |-> <<>>]

---------------------------------------------------------------------------
(* simulations/tcpython/extract_oxide_gibbs.py                             *)

ExT_MIN == 500
ExT_MAX == 2000
ExT_STEP == 50

\* len(range(start, stop, step)) for a positive step
RangeLen(start, stop, step) == IF stop > start THEN (stop - start + step - 1) \div step ELSE 0

\* len(temperatures), temperatures = list(range(T_MIN, T_MAX + 1, T_STEP))
ExGridLen == RangeLen(ExT_MIN, ExT_MAX + 1, ExT_STEP)

\* number of grid temperatures the model walks (the script: 500..2000 K, 31 points)
ExNumTemps == 2

\* number of entries of OXIDES the model processes, in the dict's order
ExNumOxides == 3

OXIDES == <<
    [name |-> "Cu2O",  elements |-> <<"CU", "O">>, metal_per_O2 |-> Rat(4, 1),
     oxide_per_O2 |-> Rat(2, 1), phase_patterns |-> <<"CUPRITE", "CU2O">>],
    [name |-> "CuO",   elements |-> <<"CU", "O">>, metal_per_O2 |-> Rat(2, 1),
     oxide_per_O2 |-> Rat(2, 1), phase_patterns |-> <<"CUO", "TENORITE">>],
    [name |-> "Al2O3", elements |-> <<"AL", "O">>, metal_per_O2 |-> Rat(4, 3),
     oxide_per_O2 |-> Rat(2, 3), phase_patterns |-> <<"CORUNDUM", "AL2O3">>],
    [name |-> "MgO",   elements |-> <<"MG", "O">>, metal_per_O2 |-> Rat(2, 1),
     oxide_per_O2 |-> Rat(2, 1), phase_patterns |-> <<"HALITE", "MGO", "PERICLASE">>],
    [name |-> "SiO2",  elements |-> <<"SI", "O">>, metal_per_O2 |-> Rat(1, 1),
     oxide_per_O2 |-> Rat(1, 1),
     phase_patterns |-> <<"QUARTZ", "SIO2", "TRIDYMITE", "CRISTOBALITE">>],
    [name |-> "TiO2",  elements |-> <<"TI", "O">>, metal_per_O2 |-> Rat(1, 1),
     oxide_per_O2 |-> Rat(1, 1), phase_patterns |-> <<"RUTILE", "TIO2", "ANATASE">>],
    [name |-> "FeO",   elements |-> <<"FE", "O">>, metal_per_O2 |-> Rat(2, 1),
     oxide_per_O2 |-> Rat(2, 1), phase_patterns |-> <<"HALITE", "FEO", "WUSTITE">>] >>

ExOxideCount == IF ExNumOxides < Len(OXIDES) THEN ExNumOxides ELSE Len(OXIDES)

\* temperatures = list(range(T_MIN, T_MAX + 1, T_STEP))
ExTemperatures == [i \in 1..ExNumTemps |-> ExT_MIN + (i - 1) * ExT_STEP]

ExTempSet == {ExTemperatures[i] : i \in 1..ExNumTemps}

\* results = {T: {"T_K": T, "T_C": T - 273.15} for T in temperatures}
ExInitialResults ==
    [T \in ExTempSet |->
        Put(Put(EmptyDict, "T_K", Num(RatInt(T))),
            "T_C", Num(RatSub(RatInt(T), KelvinOffset)))]

\* G_O2 = {T: 0 for T in temperatures}
ExZeroO2 == [T \in ExTempSet |-> RatInt(0)]

(* The thermodynamic service (TC-Python, database TCOX14) is external.  A  *)
(* scenario fixes what its successful calls return; whether a call raises  *)
(* is chosen at every call.                                                *)
ServiceScenarios == {"solid", "melted", "mixed"}

\* the scripts that talk to the service
ServicePrograms == {"extract_oxide_gibbs", "cu_al_o_phase_stability"}

\* result.get_value_of("GM") of the O-only system
SvcO2GM(T) == RatInt(-2 * T)

\* result.get_value_of("GM") of the nearly pure metal
SvcMetalGM(o, T) == RatInt(-3 * T - 10 * o)

\* the equilibrium at the oxide's composition: stable phases, GM of the system,
\* and for each stable phase GM(phase) or the fact that reading it raises
SvcOxideResult(sc, o, t) ==
    LET T      == ExTemperatures[t]
        phase  == OXIDES[o].phase_patterns[1] \o "#1"
        sysGM  == RatInt(-7 * T - 1000 * o)
        own    == RatInt(-9 * T - 1000 * o)
    IN  CASE sc = "solid" ->
               [stable |-> <<"GAS", phase>>, GM |-> sysGM,
                phaseGM |-> [q \in {"GAS", phase} |-> Num(own)]]
          [] sc = "melted" ->
               [stable |-> <<"IONIC_LIQ", "GAS">>, GM |-> sysGM,
                phaseGM |-> [q \in {"IONIC_LIQ", "GAS"} |-> Num(own)]]
          [] OTHER ->
               IF t % 2 = 1
               THEN [stable |-> <<phase>>, GM |-> sysGM,
                     phaseGM |-> [q \in {phase} |-> Num(RatInt(0))]]
               ELSE [stable |-> <<phase, "IONIC_LIQ">>, GM |-> sysGM,
                     phaseGM |-> [q \in {phase, "IONIC_LIQ"} |-> NoneV]]

\* the loops of get_phase_gibbs from pattern p, phase q on; a phaseGM of None
\* stands for get_value_of raising, which the bare except swallows
RECURSIVE PhaseScan(_, _, _, _)
PhaseScan(result, patterns, p, q) ==
    IF p > Len(patterns) THEN <<NoneV, NoneV>>
    ELSE IF q > Len(result.stable) THEN PhaseScan(result, patterns, p + 1, 1)
    ELSE LET phase == result.stable[q]
         IN  IF /\ StrIn(StrUpper(patterns[p]), StrUpper(phase))
                /\ result.phaseGM[phase].t = "num"
             THEN <<result.phaseGM[phase], Str(phase)>>
             ELSE PhaseScan(result, patterns, p, q + 1)

\* the loops nested the other way round: phases outside, patterns inside
RECURSIVE PhaseScan_PhaseMajor(_, _, _, _)
PhaseScan_PhaseMajor(result, patterns, q, p) ==
    IF q > Len(result.stable) THEN <<NoneV, NoneV>>
    ELSE IF p > Len(patterns) THEN PhaseScan_PhaseMajor(result, patterns, q + 1, 1)
    ELSE LET phase == result.stable[q]
         IN  IF /\ StrIn(StrUpper(patterns[p]), StrUpper(phase))
                /\ result.phaseGM[phase].t = "num"
             THEN <<result.phaseGM[phase], Str(phase)>>
             ELSE PhaseScan_PhaseMajor(result, patterns, q, p + 1)

get_phase_gibbs_PhaseMajor(result, phase_patterns) ==
    PhaseScan_PhaseMajor(result, phase_patterns, 1, 1)

get_phase_gibbs(result, phase_patterns) == PhaseScan(result, phase_patterns, 1, 1)

\* ";".join(stable)
RECURSIVE JoinPhases(_, _)
JoinPhases(stable, sep) ==
    IF Len(stable) = 0 THEN ""
    ELSE IF Len(stable) = 1 THEN stable[1]
    ELSE stable[1] \o sep \o JoinPhases(Tail(stable), sep)

\* a formation energy always taken from the system energy
GMForCalc_System(GM_oxide, GM_system) == GM_system

\* GM_oxide if GM_oxide else GM_system
GMForCalc(GM_oxide, GM_system) == IF Truthy(GM_oxide) THEN GM_oxide.v ELSE GM_system

\* oxide_coeff * GM_for_calc - metal_coeff * G_metal[T] - G_O2[T]
DGPerO2(cfg, gm, gmetal, go2) ==
    RatSub(RatSub(RatMul(cfg.oxide_per_O2, gm), RatMul(cfg.metal_per_O2, gmetal)), go2)

\* the body of the per-temperature try block for one oxide, lines 166-194
ExOxideCells(row, cfg, result, gmetal, go2) ==
    LET found == get_phase_gibbs(result, cfg.phase_patterns)
        GM_oxide == found[1]
        oxide_phase == found[2]
        r1 == Put(row, "GM_" \o cfg.name,
                  Num(IF Truthy(GM_oxide) THEN GM_oxide.v ELSE result.GM))
        r2 == Put(r1, "GM_system_" \o cfg.name, Num(result.GM))
        r3 == Put(r2, "G_metal_" \o cfg.name, Num(gmetal))
        r4 == Put(r3, "phases_" \o cfg.name, Str(JoinPhases(result.stable, ";")))
        r5 == Put(r4, "oxide_phase_" \o cfg.name,
                  IF Truthy(oxide_phase) THEN oxide_phase ELSE Str("NOT_FOUND"))
    IN  Put(r5, "dG_" \o cfg.name \o "_per_O2",
            Num(DGPerO2(cfg, GMForCalc(GM_oxide, result.GM), gmetal, go2)))

\* an except branch that records nothing
ExOxideErrorCells_NoMarker(row, cfg) == row

\* the except branch of the per-temperature try block, lines 197-200
ExOxideErrorCells(row, cfg) ==
    Put(Put(Put(row, "GM_" \o cfg.name, NoneV),
            "dG_" \o cfg.name \o "_per_O2", NoneV),
        "phases_" \o cfg.name, Str("Error: e"))

\* fieldnames of the CSV, lines 220-223
RECURSIVE ExOxideFields(_)
ExOxideFields(n) ==
    IF n = 0 THEN <<>>
    ELSE ExOxideFields(n - 1) \o
         << "GM_" \o OXIDES[n].name, "GM_system_" \o OXIDES[n].name,
            "G_metal_" \o OXIDES[n].name, "dG_" \o OXIDES[n].name \o "_per_O2",
            "phases_" \o OXIDES[n].name, "oxide_phase_" \o OXIDES[n].name >>

\* for oxide in OXIDES.keys(): every oxide of the dict, processed or not
ExFieldnames == <<"T_K", "T_C">> \o ExOxideFields(Len(OXIDES))

\* rows written as they are held, with no default for a missing key
ExCsvOf_NoDefault(res) ==
    [written |-> TRUE,
     header  |-> ExFieldnames,
     rows    |-> [i \in 1..ExNumTemps |->
                    [k \in DOMAIN res[ExTemperatures[i]] |->
                        CsvField(res[ExTemperatures[i]][k])]]]

\* the rows DictWriter writes, lines 225-230
ExCsvOf(res) ==
    [written |-> TRUE,
     header  |-> ExFieldnames,
     rows    |-> [i \in 1..ExNumTemps |->
                    [k \in {ExFieldnames[j] : j \in 1..Len(ExFieldnames)} |->
                        CsvField(GetOrEmpty(res[ExTemperatures[i]], k))]]]

\* leaving the body of the oxide loop for oxide oxIdx
ExNextOxide ==
    IF oxIdx < ExOxideCount
    THEN oxIdx' = oxIdx + 1 /\ pc' = "ex_oxide_select"
    ELSE oxIdx' = oxIdx /\ pc' = "ex_write"

\* with TCPython() as session: the session opens
ExConnect ==
    /\ ExFrame
    /\ prog = "extract_oxide_gibbs" /\ pc = "ex_connect"
    /\ pc' = "ex_o2_select"
    /\ UNCHANGED <<oxIdx, tIdx, G_O2, G_metal, results, csv>>

\* with TCPython() as session: raises, nothing is caught
ExConnectFails ==
    /\ ExFrame
    /\ prog = "extract_oxide_gibbs" /\ pc = "ex_connect"
    /\ Crash
    /\ UNCHANGED <<oxIdx, tIdx, G_O2, G_metal, results, csv>>

\* line 125: select_database_and_elements("TCOX14", ["O"]).get_system()
ExO2Select ==
    /\ ExFrame
    /\ prog = "extract_oxide_gibbs" /\ pc = "ex_o2_select"
    /\ pc' = "ex_o2_loop" /\ tIdx' = 1
    /\ UNCHANGED <<oxIdx, G_O2, G_metal, results, csv>>

\* lines 126-132: one temperature of the O2 reference loop succeeds
ExO2Step ==
    /\ ExFrame
    /\ prog = "extract_oxide_gibbs" /\ pc = "ex_o2_loop"
    /\ G_O2' = Put(G_O2, ExTemperatures[tIdx], SvcO2GM(ExTemperatures[tIdx]))
    /\ IF tIdx < ExNumTemps
       THEN tIdx' = tIdx + 1 /\ pc' = "ex_o2_loop"
       ELSE tIdx' = 1 /\ pc' = "ex_oxide_select"
    /\ UNCHANGED <<oxIdx, G_metal, results, csv>>

\* an except branch that zeroes only the temperatures not yet computed
ExO2Fails_KeepComputed ==
    /\ ExFrame
    /\ prog = "extract_oxide_gibbs" /\ pc \in {"ex_o2_select", "ex_o2_loop"}
    /\ G_O2' = [T \in ExTempSet |-> IF T \in DOMAIN G_O2 THEN G_O2[T] ELSE RatInt(0)]
    /\ tIdx' = 1 /\ pc' = "ex_oxide_select"
    /\ UNCHANGED <<oxIdx, G_metal, results, csv>>

\* lines 134-137: any call of the O2 block raises; G_O2 is replaced as a whole
ExO2Fails ==
    /\ ExFrame
    /\ prog = "extract_oxide_gibbs" /\ pc \in {"ex_o2_select", "ex_o2_loop"}
    /\ G_O2' = ExZeroO2
    /\ tIdx' = 1 /\ pc' = "ex_oxide_select"
    /\ UNCHANGED <<oxIdx, G_metal, results, csv>>

\* line 147: select_database_and_elements("TCOX14", elements).get_system(); G_metal = {}
ExOxideSelect ==
    /\ ExFrame
    /\ prog = "extract_oxide_gibbs" /\ pc = "ex_oxide_select"
    /\ G_metal' = [x \in {} |-> RatInt(0)]
    /\ tIdx' = 1 /\ pc' = "ex_metal"
    /\ UNCHANGED <<oxIdx, G_O2, results, csv>>

\* lines 152-158: one temperature of the metal reference loop succeeds
ExMetalStep ==
    /\ ExFrame
    /\ prog = "extract_oxide_gibbs" /\ pc = "ex_metal"
    /\ G_metal' = Put(G_metal, ExTemperatures[tIdx], SvcMetalGM(oxIdx, ExTemperatures[tIdx]))
    /\ IF tIdx < ExNumTemps
       THEN tIdx' = tIdx + 1 /\ pc' = "ex_metal"
       ELSE tIdx' = 1 /\ pc' = "ex_oxide"
    /\ UNCHANGED <<oxIdx, G_O2, results, csv>>

\* lines 213-214: the system selection or a metal reference call raises;
\* SYSTEM ERROR is printed and the oxide is abandoned
ExSystemError ==
    /\ ExFrame
    /\ prog = "extract_oxide_gibbs" /\ pc \in {"ex_oxide_select", "ex_metal"}
    /\ tIdx' = 1
    /\ ExNextOxide
    /\ UNCHANGED <<G_O2, G_metal, results, csv>>

\* after the last temperature of the oxide loop
ExAfterOxideTemp ==
    IF tIdx < ExNumTemps
    THEN tIdx' = tIdx + 1 /\ pc' = "ex_oxide" /\ oxIdx' = oxIdx
    ELSE tIdx' = 1 /\ ExNextOxide

\* lines 165-196: the oxide equilibrium at one temperature succeeds
ExOxideStep ==
    /\ ExFrame
    /\ prog = "extract_oxide_gibbs" /\ pc = "ex_oxide"
    /\ LET T == ExTemperatures[tIdx]
       IN  results' = [results EXCEPT ![T] =
                ExOxideCells(results[T], OXIDES[oxIdx],
                             SvcOxideResult(svc, oxIdx, tIdx), G_metal[T], G_O2[T])]
    /\ ExAfterOxideTemp
    /\ UNCHANGED <<G_O2, G_metal, csv>>

\* lines 197-200: a call of the per-temperature try block raises
ExOxideStepFails ==
    /\ ExFrame
    /\ prog = "extract_oxide_gibbs" /\ pc = "ex_oxide"
    /\ LET T == ExTemperatures[tIdx]
       IN  results' = [results EXCEPT ![T] = ExOxideErrorCells(results[T], OXIDES[oxIdx])]
    /\ ExAfterOxideTemp
    /\ UNCHANGED <<G_O2, G_metal, csv>>

\* lines 216-232: write the CSV
ExWriteCsv ==
    /\ ExFrame
    /\ prog = "extract_oxide_gibbs" /\ pc = "ex_write"
    /\ csv' = ExCsvOf(results)
    /\ pc' = "ex_done"
    /\ UNCHANGED <<oxIdx, tIdx, G_O2, G_metal, results>>

ExInit ==
    /\ svc \in (IF prog \in ServicePrograms THEN ServiceScenarios ELSE {"none"})
    /\ oxIdx = 1
    /\ tIdx = 1
    /\ G_O2 = [x \in {} |-> RatInt(0)]
    /\ G_metal = [x \in {} |-> RatInt(0)]
    /\ results = ExInitialResults
    /\ csv = NoCsv

---------------------------------------------------------------------------
(* simulations/tcpython/cu_al_o_phase_stability.py                         *)

CaT_START == 800
CaT_STOP == 1501
CaT_STEP == 50

\* len(TEMPERATURES_C)
CaGridLen == RangeLen(CaT_START, CaT_STOP, CaT_STEP)

\* number of grid temperatures the model walks (the script: 800..1500 C, 15 points)
CaNumTemps == 3

\* TEMPERATURES_C = range(800, 1501, 50)
TEMPERATURES_C == [i \in 1..CaNumTemps |-> CaT_START + (i - 1) * CaT_STEP]

\* T_K = T_C + 273.15
CelsiusToKelvin(tc) == RatAdd(tc, KelvinOffset)

\* result.get_stable_phases() of the Cu-Al-O equilibrium
SvcCuAlOPhases(sc, t) ==
    CASE sc = "solid"  -> <<"CORUNDUM", "SPINEL", "FCC_L12">>
      [] sc = "melted" -> <<"IONIC_LIQ", "Corundum#2">>
      [] OTHER         -> IF t % 2 = 1 THEN <<"CUALUMINATE", "AL2O3">>
                                       ELSE <<"IONIC_LIQ">>

\* the row appended when calculate() and get_stable_phases() succeed, lines 69-78
CaRow(T_C, phases) ==
    LET all == StrUpper(JoinPhases(phases, ", "))
    IN  [T_C |-> RatInt(T_C),
         T_K |-> CelsiusToKelvin(RatInt(T_C)),
         phases |-> JoinPhases(phases, "; "),
         num_phases |-> Len(phases),
         has_CuAlO2 |-> StrIn("CUALUMINATE", all) \/ StrIn("CUALOXID", all),
         has_spinel |-> StrIn("SPINEL", all),
         has_corundum |-> StrIn("CORUNDUM", all) \/ StrIn("AL2O3", all)]

\* the row appended by the except branch, lines 83-91
CaErrorRow(T_C) ==
    [T_C |-> RatInt(T_C),
     T_K |-> CelsiusToKelvin(RatInt(T_C)),
     phases |-> "ERROR: e",
     num_phases |-> 0,
     has_CuAlO2 |-> FALSE,
     has_spinel |-> FALSE,
     has_corundum |-> FALSE]

CaFieldnames ==
    <<"T_C", "T_K", "phases", "num_phases", "has_CuAlO2", "has_spinel", "has_corundum">>

\* with TCPython() as session: the session opens
CaConnect ==
    /\ CaFrame
    /\ prog = "cu_al_o_phase_stability" /\ pc = "ca_connect"
    /\ pc' = "ca_setup"
    /\ UNCHANGED <<cIdx, caResults, caCsv>>

\* lines 50-56: select the system, create the calculation, set P and the composition
CaSetup ==
    /\ CaFrame
    /\ prog = "cu_al_o_phase_stability" /\ pc = "ca_setup"
    /\ pc' = "ca_set_T"
    /\ UNCHANGED <<cIdx, caResults, caCsv>>

\* line 63: calc.set_condition('T', T_K)
CaSetT ==
    /\ CaFrame
    /\ prog = "cu_al_o_phase_stability" /\ pc = "ca_set_T"
    /\ pc' = "ca_calc"
    /\ UNCHANGED <<cIdx, caResults, caCsv>>

\* a call outside the try block raises (lines 48-63): the exception leaves main
CaUncaught ==
    /\ CaFrame
    /\ prog = "cu_al_o_phase_stability" /\ pc \in {"ca_connect", "ca_setup", "ca_set_T"}
    /\ Crash
    /\ UNCHANGED <<cIdx, caResults, caCsv>>

CaAfterTemp ==
    IF cIdx < CaNumTemps
    THEN cIdx' = cIdx + 1 /\ pc' = "ca_set_T"
    ELSE cIdx' = cIdx /\ pc' = "ca_write"

\* lines 65-79: calculate() and get_stable_phases() succeed
CaCalc ==
    /\ CaFrame
    /\ prog = "cu_al_o_phase_stability" /\ pc = "ca_calc"
    /\ caResults' = Append(caResults, CaRow(TEMPERATURES_C[cIdx], SvcCuAlOPhases(svc, cIdx)))
    /\ CaAfterTemp
    /\ UNCHANGED caCsv

\* an except branch that records no row for the temperature
CaCalcFails_NoRow ==
    /\ CaFrame
    /\ prog = "cu_al_o_phase_stability" /\ pc = "ca_calc"
    /\ caResults' = caResults
    /\ CaAfterTemp
    /\ UNCHANGED caCsv

\* lines 81-91: calculate() or get_stable_phases() raises
CaCalcFails ==
    /\ CaFrame
    /\ prog = "cu_al_o_phase_stability" /\ pc = "ca_calc"
    /\ caResults' = Append(caResults, CaErrorRow(TEMPERATURES_C[cIdx]))
    /\ CaAfterTemp
    /\ UNCHANGED caCsv

\* lines 93-101: write the CSV
CaWriteCsv ==
    /\ CaFrame
    /\ prog = "cu_al_o_phase_stability" /\ pc = "ca_write"
    /\ caCsv' = [written |-> TRUE, header |-> CaFieldnames, rows |-> caResults]
    /\ pc' = "ca_done"
    /\ UNCHANGED <<cIdx, caResults>>

CaInit ==
    /\ cIdx = 1
    /\ caResults = <<>>
    /\ caCsv = NoCsv

---------------------------------------------------------------------------
(* Helpers shared by the scripts that rank and tabulate the linear models. *)

\* np.linspace(lo, hi, n)[i], i from 0
Linspace(lo, hi, n, i) == RatAdd(RatInt(lo), Rat(i * (hi - lo), n - 1))

\* A + B * T_K with A in kJ/mol and B given in thousandths of kJ/(mol K)
Linear(A, Bmilli, T_K) == RatAdd(RatInt(A), RatMul(Rat(Bmilli, 1000), T_K))

\* list.sort(key=lambda x: x[1]) / sorted(..., key=lambda x: x[1]): a stable
\* ascending sort of <<name, value>> pairs
RECURSIVE InsertByValue(_, _)
InsertByValue(sorted, item) ==
    IF sorted = <<>> THEN <<item>>
    ELSE IF RatLt(item[2], sorted[Len(sorted)][2])
         THEN Append(InsertByValue(SubSeq(sorted, 1, Len(sorted) - 1), item),
                     sorted[Len(sorted)])
         ELSE Append(sorted, item)

\* a ranking that is never sorted
SortByValue_NoSort(items) == items

RECURSIVE SortByValue(_)
SortByValue(items) ==
    IF items = <<>> THEN <<>>
    ELSE InsertByValue(SortByValue(SubSeq(items, 1, Len(items) - 1)), items[Len(items)])

---------------------------------------------------------------------------
(* simulations/pycalphad/cu_ceramic_affinity.py                            *)

\* the Cu2O model with the coefficients of CuO
gibbs_formation_cu2o_CuO(T_K) == Linear(-155, 85, T_K)

gibbs_formation_cu2o(T_K)  == Linear(-170, 75, T_K)
gibbs_formation_cuo(T_K)   == Linear(-155, 85, T_K)
gibbs_formation_al2o3(T_K) == Linear(-1676, 320, T_K)
gibbs_formation_mgo(T_K)   == Linear(-601, 110, T_K)
gibbs_formation_sio2(T_K)  == Linear(-910, 180, T_K)
gibbs_formation_tio2(T_K)  == Linear(-944, 180, T_K)
gibbs_formation_feo(T_K)   == Linear(-264, 65, T_K)

\* T_steel = 1873
T_steel == 1873

\* the oxides dict of ellingham_comparison, in insertion order
AffOxidesAt(T) ==
    << <<"Cu2O",  RatDiv(gibbs_formation_cu2o(T),  Rat(1, 2))>>,
       <<"CuO",   RatDiv(gibbs_formation_cuo(T),   Rat(1, 2))>>,
       <<"FeO",   RatDiv(gibbs_formation_feo(T),   Rat(1, 2))>>,
       <<"Al2O3", RatDiv(gibbs_formation_al2o3(T), Rat(3, 2))>>,
       <<"MgO",   RatDiv(gibbs_formation_mgo(T),   Rat(1, 2))>>,
       <<"SiO2",  RatDiv(gibbs_formation_sio2(T),  Rat(1, 1))>>,
       <<"TiO2",  RatDiv(gibbs_formation_tio2(T),  Rat(1, 1))>> >>

\* points of T_range = np.linspace(800, 2000, 200) in plot_ellingham
AffPlotPoints == 200

\* the lines plot_ellingham draws: x = T_range - 273, y = dGf / O2 factor
AffPlotLines ==
    LET T(i) == Linspace(800, 2000, AffPlotPoints, i)
        line(f(_), o2) ==
            [i \in 0..(AffPlotPoints - 1) |->
                [x |-> RatSub(T(i), RatInt(273)), y |-> RatDiv(f(T(i)), o2)]]
    IN  [Cu2O  |-> line(gibbs_formation_cu2o,  Rat(1, 2)),
         FeO   |-> line(gibbs_formation_feo,   Rat(1, 2)),
         Al2O3 |-> line(gibbs_formation_al2o3, Rat(3, 2)),
         MgO   |-> line(gibbs_formation_mgo,   Rat(1, 2)),
         SiO2  |-> line(gibbs_formation_sio2,  Rat(1, 1)),
         TiO2  |-> line(gibbs_formation_tio2,  Rat(1, 1))]

\* ellingham_comparison(): build the dict, sort it by stability
AffEllingham ==
    /\ AffFrame
    /\ prog = "cu_ceramic_affinity" /\ pc = "aff_ellingham"
    /\ affOxides' = AffOxidesAt(RatInt(T_steel))
    /\ sorted_oxides' = SortByValue(AffOxidesAt(RatInt(T_steel)))
    /\ pc' = "aff_sulfide"
    /\ UNCHANGED affPlot

\* plot_ellingham()
AffPlot ==
    /\ AffFrame
    /\ prog = "cu_ceramic_affinity" /\ pc = "aff_plot"
    /\ affPlot' = AffPlotLines
    /\ pc' = "aff_done"
    /\ UNCHANGED <<affOxides, sorted_oxides>>

AffInit ==
    /\ affOxides = <<>>
    /\ sorted_oxides = <<>>
    /\ affPlot = <<>>

---------------------------------------------------------------------------
(* simulations/pycalphad/cu_ceramic_thermodynamics.py                      *)

\* oxide_data: name -> (A, B in thousandths, O2_factor), in the dict's order
oxide_data == <<
    [name |-> "Cu2O",  A |-> -170,  B |-> 75,  O2_factor |-> Rat(1, 2)],
    [name |-> "CuO",   A |-> -155,  B |-> 85,  O2_factor |-> Rat(1, 2)],
    [name |-> "FeO",   A |-> -264,  B |-> 65,  O2_factor |-> Rat(1, 2)],
    [name |-> "Al2O3", A |-> -1676, B |-> 320, O2_factor |-> Rat(3, 2)],
    [name |-> "MgO",   A |-> -601,  B |-> 110, O2_factor |-> Rat(1, 2)],
    [name |-> "SiO2",  A |-> -910,  B |-> 180, O2_factor |-> Rat(1, 1)],
    [name |-> "TiO2",  A |-> -944,  B |-> 180, O2_factor |-> Rat(1, 1)] >>

OxideDatum(name) ==
    oxide_data[CHOOSE i \in 1..Len(oxide_data) : oxide_data[i].name = name]

calc_dGf(name, T_K) == Linear(OxideDatum(name).A, OxideDatum(name).B, T_K)

calc_dGf_per_O2(name, T_K) ==
    RatDiv(Linear(OxideDatum(name).A, OxideDatum(name).B, T_K), OxideDatum(name).O2_factor)

\* temp_slider: start, stop, step, value
SliderStart == 1000
SliderStop == 1700
SliderStep == 25
SliderDefault == 1600

\* oxide_selector: the default selection
SelectorDefault == {"Cu2O", "FeO", "Al2O3", "MgO", "SiO2", "TiO2"}

\* the selected names as a list, in the order of the options
RECURSIVE SelectedList(_, _)
SelectedList(sel, n) ==
    IF n = 0 THEN <<>>
    ELSE IF oxide_data[n].name \in sel
         THEN Append(SelectedList(sel, n - 1), oxide_data[n].name)
         ELSE SelectedList(sel, n - 1)

\* the ranking cell without its sort
Rankings_Unsorted(slider, sel) ==
    LET T_K_sel == slider + 273
        selected_oxides == IF sel # {} THEN SelectedList(sel, Len(oxide_data)) ELSE <<"Cu2O">>
    IN  [i \in 1..Len(selected_oxides) |->
            <<selected_oxides[i], calc_dGf_per_O2(selected_oxides[i], RatInt(T_K_sel))>>]

\* the ranking cell, lines 254-262
Rankings(slider, sel) ==
    LET T_K_sel == slider + 273
        selected_oxides == IF sel # {} THEN SelectedList(sel, Len(oxide_data)) ELSE <<"Cu2O">>
    IN  SortByValue([i \in 1..Len(selected_oxides) |->
            <<selected_oxides[i], calc_dGf_per_O2(selected_oxides[i], RatInt(T_K_sel))>>])

\* the user drags the slider one step; the ranking cell re-runs
ThMoveSlider ==
    /\ ThFrame
    /\ prog = "cu_ceramic_thermodynamics" /\ pc = "th_interactive"
    /\ \E v \in {thSlider - SliderStep, thSlider + SliderStep} :
          /\ SliderStart <= v /\ v <= SliderStop
          /\ thSlider' = v
          /\ rankings' = Rankings(v, thSelected)
    /\ UNCHANGED <<pc, thSelected>>

\* the user ticks or unticks one oxide; the ranking cell re-runs
ThToggleOxide ==
    /\ ThFrame
    /\ prog = "cu_ceramic_thermodynamics" /\ pc = "th_interactive"
    /\ \E i \in 1..Len(oxide_data) :
          LET n == oxide_data[i].name
              sel == IF n \in thSelected THEN thSelected \ {n} ELSE thSelected \cup {n}
          IN  /\ thSelected' = sel
              /\ rankings' = Rankings(thSlider, sel)
    /\ UNCHANGED <<pc, thSlider>>

ThInit ==
    /\ thSlider = SliderDefault
    /\ thSelected = SelectorDefault
    /\ rankings = Rankings(SliderDefault, SelectorDefault)

---------------------------------------------------------------------------
(* simulations/pycalphad/compute_cu_o_data.py                              *)

CuoT_MIN == 500
CuoT_MAX == 1900
N_POINTS == 100
SITES_CU2O == 3
SITES_CUO == 2

\* melting point of Cu2O in degrees C, as the repository documents it
Cu2OMeltC == 1235

RatFloor(r) == r[1] \div r[2]

(* The SGTE functions are polynomials with T ln T, T^2, T^3 and 1/T terms. *)
(* The model keeps which piece of the function is evaluated; the value of  *)
(* a piece is abstracted to an integer number of J that depends on the     *)
(* piece and on the temperature.                                           *)
GHSERCU(T) ==
    IF RatLt(T, RatInt(1358))
    THEN [piece |-> "below_1358",  val |-> RatInt(-7770 - 34 * RatFloor(T))]
    ELSE [piece |-> "above_1358",  val |-> RatInt(-13542 - 42 * RatFloor(T))]

GHSEROO(T) ==
    IF RatLt(T, RatInt(1000))
    THEN [piece |-> "below_1000", val |-> RatInt(-3480 - 102 * RatFloor(T))]
    ELSE IF RatLt(T, RatInt(3300))
         THEN [piece |-> "below_3300", val |-> RatInt(-6568 - 115 * RatFloor(T))]
         ELSE [piece |-> "above_3300", val |-> RatInt(-13986 - 125 * RatFloor(T))]

\* pycalphad: calculate(db, ['CU', 'O'], phase, T=T_range, P=PRESSURE).GM, per mole of sites
PyCalphadGM(phase, T) ==
    IF phase = "CU2O" THEN RatInt(-62000 - 31 * RatFloor(T))
                      ELSE RatInt(-81000 - 12 * RatFloor(T))

\* the per-site energy taken as the energy of a formula unit
PerFormulaUnit_PerSite(GM_per_site, sites) == GM_per_site

\* G = GM_per_site * SITES, lines 137 and 142
PerFormulaUnit(GM_per_site, sites) == RatMul(GM_per_site, RatInt(sites))

\* COMPARISON_OXIDES: name -> (A, B in thousandths, O2_factor), in the dict's order
COMPARISON_OXIDES == <<
    [name |-> "Al2O3", A |-> -1676, B |-> 320, O2_factor |-> Rat(3, 2)],
    [name |-> "MgO",   A |-> -601,  B |-> 110, O2_factor |-> Rat(1, 2)],
    [name |-> "SiO2",  A |-> -910,  B |-> 180, O2_factor |-> Rat(1, 1)],
    [name |-> "TiO2",  A |-> -944,  B |-> 180, O2_factor |-> Rat(1, 1)],
    [name |-> "FeO",   A |-> -264,  B |-> 65,  O2_factor |-> Rat(1, 2)] >>

\* the linear model left per mole of oxide
calc_comparison_oxide_dG_PerOxide(o, T_K) == RatMul(Linear(o.A, o.B, T_K), JPerKJ)

\* (A + B * T_K) / O2_factor * 1000
calc_comparison_oxide_dG(o, T_K) ==
    RatMul(RatDiv(Linear(o.A, o.B, T_K), o.O2_factor), JPerKJ)

CuoColumns ==
    <<"T_K", "T_C", "G_cu2o", "G_cuo", "G_cu_ref", "G_O_ref",
      "dG_cu2o_formation", "dG_cuo_formation", "dG_cu2o_per_O2", "dG_cuo_per_O2">>
        \o [k \in 1..Len(COMPARISON_OXIDES) |-> "dG_" \o COMPARISON_OXIDES[k].name \o "_per_O2"]

\* row i (from 0) of the DataFrame, lines 120-189
CuoRow(i) ==
    LET T         == Linspace(CuoT_MIN, CuoT_MAX, N_POINTS, i)
        G_cu_ref  == GHSERCU(T).val
        G_O_ref   == GHSEROO(T).val
        G_cu2o    == PerFormulaUnit(PyCalphadGM("CU2O", T), SITES_CU2O)
        G_cuo     == PerFormulaUnit(PyCalphadGM("CUO", T), SITES_CUO)
        f_cu2o    == RatSub(RatSub(G_cu2o, RatMul(RatInt(2), G_cu_ref)), G_O_ref)
        f_cuo     == RatSub(RatSub(G_cuo, G_cu_ref), G_O_ref)
        own       == [k \in {"T_K", "T_C", "G_cu2o", "G_cuo", "G_cu_ref", "G_O_ref",
                             "dG_cu2o_formation", "dG_cuo_formation",
                             "dG_cu2o_per_O2", "dG_cuo_per_O2"} |->
                        CASE k = "T_K" -> T
                          [] k = "T_C" -> RatSub(T, KelvinOffset)
                          [] k = "G_cu2o" -> G_cu2o
                          [] k = "G_cuo" -> G_cuo
                          [] k = "G_cu_ref" -> G_cu_ref
                          [] k = "G_O_ref" -> G_O_ref
                          [] k = "dG_cu2o_formation" -> f_cu2o
                          [] k = "dG_cuo_formation" -> f_cuo
                          [] k = "dG_cu2o_per_O2" -> RatMul(RatInt(2), f_cu2o)
                          [] OTHER -> RatMul(RatInt(2), f_cuo)]
    IN  [k \in {CuoColumns[j] : j \in 1..Len(CuoColumns)} |->
            IF k \in DOMAIN own THEN own[k]
            ELSE LET o == COMPARISON_OXIDES[
                            CHOOSE n \in 1..Len(COMPARISON_OXIDES) :
                                k = "dG_" \o COMPARISON_OXIDES[n].name \o "_per_O2"]
                 IN  calc_comparison_oxide_dG(o, T)]

\* line 114: db = Database(DB_PATH)
CuoLoadDb ==
    /\ CuoFrame
    /\ prog = "compute_cu_o_data" /\ pc = "cuo_load"
    /\ pc' = "cuo_compute"
    /\ UNCHANGED <<cuoCalls, df, cuoCsv>>

\* line 114 raises (the TDB file is missing or malformed): nothing is caught
CuoLoadFails ==
    /\ CuoFrame
    /\ prog = "compute_cu_o_data" /\ pc = "cuo_load"
    /\ Crash
    /\ UNCHANGED <<cuoCalls, df, cuoCsv>>

\* lines 120-189: the two calculate() calls over the whole grid, and the DataFrame
CuoCompute ==
    /\ CuoFrame
    /\ prog = "compute_cu_o_data" /\ pc = "cuo_compute"
    /\ cuoCalls' = [Cu2O |-> [phase |-> "CU2O", T_lo |-> CuoT_MIN, T_hi |-> CuoT_MAX],
                    CuO  |-> [phase |-> "CUO",  T_lo |-> CuoT_MIN, T_hi |-> CuoT_MAX]]
    /\ df' = [i \in 1..N_POINTS |-> CuoRow(i - 1)]
    /\ pc' = "cuo_write"
    /\ UNCHANGED cuoCsv

\* lines 191-195: df.to_csv(OUTPUT_FILE, index=False)
CuoWriteCsv ==
    /\ CuoFrame
    /\ prog = "compute_cu_o_data" /\ pc = "cuo_write"
    /\ cuoCsv' = [written |-> TRUE, header |-> CuoColumns,
                  rows |-> [i \in 1..Len(df) |->
                              [k \in DOMAIN df[i] |-> CsvField(Num(df[i][k]))]]]
    /\ pc' = "cuo_done"
    /\ UNCHANGED <<cuoCalls, df>>

CuoInit ==
    /\ cuoCalls = <<>>
    /\ df = <<>>
    /\ cuoCsv = NoCsv

---------------------------------------------------------------------------
---------------------------------------------------------------------------
(* The sulfide exchange example 2Cu + FeS -> Cu2S + Fe.                    *)
(* cu_ceramic_affinity.py evaluates it once at 1873 K with fixed energies; *)
(* cu_ceramic_thermodynamics.py has a slider and a cell that re-runs when  *)
(* the slider moves.  That cell reads nothing but the slider, so a         *)
(* behaviour of the notebook exercises either the ranking cell or it.      *)

SulfideStart == 1300
SulfideStop == 1700
SulfideStep == 25
SulfideDefault == 1600

\* the test of the verdict with its comparison turned around
SulfideVerdict_Flipped(dG_rxn) ==
    IF RatLt(RatInt(0), dG_rxn) THEN "FAVORABLE" ELSE "UNFAVORABLE"

\* the verdict for a reaction energy: the if/else of lines 351-356
SulfideVerdict(dG_rxn) ==
    IF RatLt(dG_rxn, RatInt(0)) THEN "FAVORABLE" ELSE "UNFAVORABLE"

\* the sulfide cell of the notebook, lines 343-356
SulfideCell(value) ==
    LET T_sulf   == RatInt(value + 273)
        dGf_FeS  == Linear(-150, 27, T_sulf)
        dGf_Cu2S == Linear(-180, 32, T_sulf)
        dG_rxn   == RatSub(dGf_Cu2S, dGf_FeS)
    IN  [T |-> T_sulf, dGf_FeS |-> dGf_FeS, dGf_Cu2S |-> dGf_Cu2S,
         dG_rxn |-> dG_rxn, result |-> SulfideVerdict(dG_rxn)]

\* sulfide_reaction_example() of cu_ceramic_affinity.py: fixed energies at
\* 1873 K, and a verdict that is printed without a test
sulfide_reaction_example ==
    [T |-> RatInt(1873), dGf_FeS |-> RatInt(-100), dGf_Cu2S |-> RatInt(-120),
     dG_rxn |-> RatSub(RatInt(-120), RatInt(-100)), result |-> "FAVORABLE"]

NoSulfide == [T |-> RatInt(0), dGf_FeS |-> RatInt(0), dGf_Cu2S |-> RatInt(0),
              dG_rxn |-> RatInt(0), result |-> ""]

\* main() of cu_ceramic_affinity.py, step 2
AffSulfide ==
    /\ SfFrame
    /\ prog = "cu_ceramic_affinity" /\ pc = "aff_sulfide"
    /\ sulfide' = sulfide_reaction_example
    /\ pc' = "aff_plot"
    /\ UNCHANGED sulfide_temp

\* the user drags the sulfide slider one step; the sulfide cell re-runs
ThMoveSulfide ==
    /\ SfFrame
    /\ prog = "cu_ceramic_thermodynamics" /\ pc = "th_sulfide"
    /\ \E v \in {sulfide_temp - SulfideStep, sulfide_temp + SulfideStep} :
          /\ SulfideStart <= v /\ v <= SulfideStop
          /\ sulfide_temp' = v
          /\ sulfide' = SulfideCell(v)
    /\ UNCHANGED pc

SfInit ==
    /\ sulfide_temp = SulfideDefault
    /\ sulfide = IF prog = "cu_ceramic_thermodynamics" THEN SulfideCell(SulfideDefault)
                                                       ELSE NoSulfide

---------------------------------------------------------------------------
(* notebooks/cu_o_visualization.py and pycalphad/cu_o_visualization.py:    *)
(* each loads cu_o_gibbs_energies.csv from the first of three paths that   *)
(* exists and falls back to a table embedded in its source.                *)

\* the header of embedded_csv in notebooks/cu_o_visualization.py
VizHeaderNb ==
    << "T_K", "T_C", "G_cu2o", "G_cuo", "G_cu_ref", "G_O_ref", "dG_cu2o_formation", "dG_cuo_formation", "dG_cu2o_per_O2", "dG_cuo_per_O2", "dG_Al2O3_per_O2", "dG_MgO_per_O2", "dG_SiO2_per_O2", "dG_TiO2_per_O2", "dG_FeO_per_O2" >>

\* its rows, every number in hundredths as the text has two decimals at most
VizDataNb ==
    <<
       << 50000, 22685, -22033347, -18010723, -1799547, -5210405, -13223847, -11000771, -26447694, -22001542, -101066667, -109200000, -82000000, -85400000, -46300000 >>,
       << 60000, 32685, -23548121, -18789955, -2270877, -6309027, -12697340, -10210051, -25394680, -20420102, -97800000, -106800000, -80200000, -83600000, -44900000 >>,
       << 70000, 42685, -25072649, -19575803, -2755385, -7389825, -12182054, -9430603, -24364108, -18861206, -94533333, -104400000, -78400000, -81800000, -43500000 >>,
       << 80000, 52685, -26607649, -20370624, -3252653, -8449896, -11652447, -8668075, -23304894, -17336150, -91266667, -102000000, -76600000, -80000000, -42100000 >>,
       << 90000, 62685, -28153587, -21176029, -3762010, -9488277, -11111300, -7925742, -22222600, -15851484, -88000000, -99600000, -74800000, -78200000, -40700000 >>,
       << 100000, 72685, -29710673, -21992909, -4282769, -10504986, -10560149, -7205154, -21120298, -14410308, -84733333, -97200000, -73000000, -76400000, -39300000 >>,
       << 110000, 82685, -31278915, -22821830, -4814296, -11500729, -9999894, -6506305, -19999788, -13012610, -81466667, -94800000, -71200000, -74600000, -37900000 >>,
       << 120000, 92685, -32858171, -23663057, -5355987, -12476565, -9429632, -5830505, -18859264, -11661010, -78200000, -92400000, -69400000, -72800000, -36500000 >>,
       << 130000, 102685, -34448242, -24516789, -5907315, -13433629, -8853669, -5175845, -17707338, -10351690, -74933333, -90000000, -67600000, -71000000, -35100000 >>,
       << 140000, 112685, -36048913, -25383059, -6467802, -14373032, -8275309, -4542225, -16550618, -9084450, -71666667, -87600000, -65800000, -69200000, -33700000 >>,
       << 150000, 122685, -37659956, -26261866, -7037029, -15295848, -7697050, -3928989, -15394100, -7857978, -68400000, -85200000, -64000000, -67400000, -32300000 >>,
       << 160000, 132685, -39281139, -27153183, -7614595, -16203117, -7121722, -3335471, -14243444, -6670942, -65133333, -82800000, -62200000, -65600000, -30900000 >>,
       << 170000, 142685, -40912233, -28056973, -8200129, -17095846, -6553029, -2760998, -13106058, -5521996, -61866667, -80400000, -60400000, -63800000, -29500000 >>,
       << 180000, 152685, -42553015, -28973196, -8793283, -17975021, -5992628, -2204892, -11985256, -4409784, -58600000, -78000000, -58600000, -62000000, -28100000 >>,
       << 190000, 162685, -44203273, -29901799, -9393731, -18841599, -5443044, -1666469, -10886088, -3332938, -55333333, -75600000, -56800000, -60200000, -26700000 >> >>

\* the header of embedded_csv in pycalphad/cu_o_visualization.py
VizHeaderPy ==
    << "T_K", "T_C", "G_cu2o", "G_cuo", "G_cu", "dG_cu2o_formation", "dG_cuo_formation", "dG_cu2o_per_O2", "dG_cuo_per_O2" >>

\* its rows, every number in hundredths as the text has two decimals at most
VizDataPy ==
    <<
       << 50000, 22685, -18854934, -16582123, -493512, -17867910, -16088611, -35735820, -32177222 >>,
       << 50909, 23594, -18982777, -16687413, -534635, -17913507, -16152778, -35827014, -32305556 >>,
       << 51818, 24503, -19110513, -16792748, -576053, -17958407, -16216695, -35916814, -32433390 >>,
       << 52727, 25412, -19238154, -16898134, -617759, -18002636, -16280375, -36005272, -32560750 >>,
       << 53636, 26321, -19365709, -17003577, -659748, -18046213, -16343829, -36092426, -32687658 >>,
       << 54545, 27230, -19493184, -17109081, -702015, -18089154, -16407066, -36178308, -32814132 >>,
       << 55455, 28140, -19620586, -17214652, -744555, -18131476, -16470097, -36262952, -32940194 >>,
       << 56364, 29049, -19747922, -17320294, -787362, -18173198, -16532932, -36346396, -33065864 >>,
       << 57273, 29958, -19875197, -17426010, -830433, -18214331, -16595577, -36428662, -33191154 >>,
       << 58182, 30867, -20002416, -17531805, -873761, -18254894, -16658044, -36509788, -33316088 >>,
       << 59091, 31776, -20129585, -17637683, -917343, -18294899, -16720340, -36589798, -33440680 >>,
       << 60000, 32685, -20256709, -17743647, -961173, -18334363, -16782474, -36668726, -33564948 >>,
       << 60909, 33594, -20383791, -17849701, -1005248, -18373295, -16844453, -36746590, -33688906 >>,
       << 61818, 34503, -20510835, -17955849, -1049563, -18411709, -16906286, -36823418, -33812572 >>,
       << 62727, 35412, -20637846, -18062093, -1094115, -18449616, -16967978, -36899232, -33935956 >>,
       << 63636, 36321, -20764827, -18168438, -1138900, -18487027, -17029538, -36974054, -34059076 >>,
       << 64545, 37230, -20891783, -18274885, -1183914, -18523955, -17090971, -37047910, -34181942 >>,
       << 65455, 38140, -21018717, -18381439, -1229154, -18560409, -17152285, -37120818, -34304570 >>,
       << 66364, 39049, -21145632, -18488102, -1274617, -18596398, -17213485, -37192796, -34426970 >>,
       << 67273, 39958, -21272532, -18594879, -1320299, -18631934, -17274580, -37263868, -34549160 >>,
       << 68182, 40867, -21399419, -18701770, -1366198, -18667023, -17335572, -37334046, -34671144 >>,
       << 69091, 41776, -21526296, -18808780, -1412310, -18701676, -17396470, -37403352, -34792940 >>,
       << 70000, 42685, -21653167, -18915910, -1458634, -18735899, -17457276, -37471798, -34914552 >>,
       << 70909, 43594, -21780034, -19023164, -1505166, -18769702, -17517998, -37539404, -35035996 >>,
       << 71818, 44503, -21906900, -19130543, -1551905, -18803090, -17578638, -37606180, -35157276 >>,
       << 72727, 45412, -22033767, -19238051, -1598849, -18836069, -17639202, -37672138, -35278404 >>,
       << 73636, 46321, -22160637, -19345691, -1645994, -18868649, -17699697, -37737298, -35399394 >>,
       << 74545, 47230, -22287514, -19453464, -1693340, -18900834, -17760124, -37801668, -35520248 >>,
       << 75455, 48140, -22414399, -19561374, -1740883, -18932633, -17820491, -37865266, -35640982 >>,
       << 76364, 49049, -22541295, -19669422, -1788623, -18964049, -17880799, -37928098, -35761598 >>,
       << 77273, 49958, -22668205, -19777612, -1836556, -18995093, -17941056, -37990186, -35882112 >>,
       << 78182, 50867, -22795132, -19885945, -1884681, -19025770, -18001264, -38051540, -36002528 >>,
       << 79091, 51776, -22922077, -19994424, -1932996, -19056085, -18061428, -38112170, -36122856 >>,
       << 80000, 52685, -23049044, -20103051, -1981500, -19086044, -18121551, -38172088, -36243102 >>,
       << 80909, 53594, -23176034, -20211828, -2030190, -19115654, -18181638, -38231308, -36363276 >>,
       << 81818, 54503, -23303050, -20320757, -2079065, -19144920, -18241692, -38289840, -36483384 >>,
       << 82727, 55412, -23430095, -20429840, -2128124, -19173847, -18301716, -38347694, -36603432 >>,
       << 83636, 56321, -23557171, -20539080, -2177364, -19202443, -18361716, -38404886, -36723432 >>,
       << 84545, 57230, -23684280, -20648478, -2226784, -19230712, -18421694, -38461424, -36843388 >>,
       << 85455, 58140, -23811425, -20758036, -2276382, -19258661, -18481654, -38517322, -36963308 >>,
       << 86364, 59049, -23938607, -20867757, -2326157, -19286293, -18541599, -38572586, -37083198 >>,
       << 87273, 59958, -24065829, -20977642, -2376107, -19313615, -18601535, -38627230, -37203070 >>,
       << 88182, 60867, -24193094, -21087693, -2426230, -19340634, -18661463, -38681268, -37322926 >>,
       << 89091, 61776, -24320403, -21197912, -2476524, -19367355, -18721388, -38734710, -37442776 >>,
       << 90000, 62685, -24447759, -21308299, -2526988, -19393783, -18781311, -38787566, -37562622 >>,
       << 90909, 63594, -24575164, -21418858, -2577621, -19419922, -18841237, -38839844, -37682474 >>,
       << 91818, 64503, -24702621, -21529589, -2628422, -19445777, -18901167, -38891554, -37802334 >>,
       << 92727, 65412, -24830131, -21640494, -2679388, -19471355, -18961106, -38942710, -37922212 >>,
       << 93636, 66321, -24957697, -21751574, -2730520, -19496657, -19021054, -38993314, -38042108 >>,
       << 94545, 67230, -25085320, -21862831, -2781814, -19521692, -19081017, -39043384, -38162034 >>,
       << 95455, 68140, -25212903, -21974266, -2833271, -19546361, -19140995, -39092722, -38281990 >>,
       << 96364, 69049, -25340547, -22085880, -2884889, -19570769, -19200991, -39141538, -38401982 >>,
       << 97273, 69958, -25468254, -22197674, -2936666, -19594922, -19261008, -39189844, -38522016 >>,
       << 98182, 70867, -25596027, -22309649, -2988601, -19618825, -19321048, -39237650, -38642096 >>,
       << 99091, 71776, -25723867, -22421808, -3040693, -19642481, -19381115, -39284962, -38762230 >>,
       << 100000, 72685, -25851777, -22534150, -3092940, -19665897, -19441210, -39331794, -38882420 >>,
       << 100909, 73594, -25979758, -22646678, -3145341, -19689076, -19501337, -39378152, -39002674 >>,
       << 101818, 74503, -26107813, -22759392, -3197894, -19712025, -19561498, -39424050, -39122996 >>,
       << 102727, 75412, -26235943, -22872293, -3250600, -19734743, -19621693, -39469486, -39243386 >>,
       << 103636, 76321, -26364150, -22985383, -3303456, -19757238, -19681927, -39514476, -39363854 >>,
       << 104545, 77230, -26492436, -23098663, -3356462, -19779512, -19742201, -39559024, -39484402 >>,
       << 105455, 78140, -26620803, -23212133, -3409617, -19801569, -19802516, -39603138, -39605032 >>,
       << 106364, 79049, -26749253, -23325796, -3462918, -19823417, -19862878, -39646834, -39725756 >>,
       << 107273, 79958, -26877788, -23439652, -3516366, -19845056, -19923286, -39690112, -39846572 >>,
       << 108182, 80867, -27006409, -23553702, -3569959, -19866491, -19983743, -39732982, -39967486 >>,
       << 109091, 81776, -27135118, -23667947, -3623796, -19887526, -20044151, -39775052, -40088302 >>,
       << 110000, 82685, -27263917, -23782388, -3677776, -19908365, -20104612, -39816730, -40209224 >>,
       << 110909, 83594, -27392807, -23897026, -3731900, -19929007, -20165126, -39858014, -40330252 >>,
       << 111818, 84503, -27521790, -24011862, -3786165, -19949460, -20225697, -39898920, -40451394 >>,
       << 112727, 85412, -27650867, -24126897, -3840571, -19969725, -20286326, -39939450, -40572652 >>,
       << 113636, 86321, -27780040, -24242131, -3895118, -19989804, -20347013, -39979608, -40694026 >>,
       << 114545, 87230, -27909311, -24357567, -3949804, -20009703, -20407763, -40019406, -40815526 >>,
       << 115455, 88140, -28038680, -24473204, -4004628, -20029424, -20468576, -40058848, -40937152 >>,
       << 116364, 89049, -28168150, -24589045, -4059590, -20048970, -20529455, -40097940, -41058910 >>,
       << 117273, 89958, -28297722, -24705089, -4114688, -20068346, -20590401, -40136692, -41180802 >>,
       << 118182, 90867, -28427398, -24821339, -4169922, -20087554, -20651417, -40175108, -41302834 >>,
       << 119091, 91776, -28557179, -24937795, -4225291, -20106597, -20712504, -40213194, -41425008 >>,
       << 120000, 92685, -28687066, -25054457, -4280894, -20125278, -20773563, -40250556, -41547126 >>,
       << 120909, 93594, -28817062, -25171328, -4336631, -20143800, -20834697, -40287600, -41669394 >>,
       << 121818, 94503, -28947168, -25288407, -4392501, -20162166, -20895906, -40324332, -41791812 >>,
       << 122727, 95412, -29077385, -25405746, -4448503, -20180379, -20957243, -40360758, -41914486 >>,
       << 123636, 96321, -29207715, -25523206, -4504637, -20198441, -21018569, -40396882, -42037138 >>,
       << 124545, 97230, -29338160, -25640917, -4560902, -20216356, -21080015, -40432712, -42160030 >>,
       << 125455, 98140, -29468720, -25758840, -4617297, -20234126, -21141543, -40468252, -42283086 >>,
       << 126364, 99049, -29599400, -25876977, -4673822, -20251756, -21203155, -40503512, -42406310 >>,
       << 127273, 99958, -29730200, -25995327, -4730477, -20269246, -21264850, -40538492, -42529700 >>,
       << 128182, 100867, -29861122, -26113893, -4787259, -20286604, -21326634, -40573208, -42653268 >>,
       << 129091, 101776, -29992167, -26232674, -4844169, -20303829, -21388505, -40607658, -42777010 >>,
       << 130000, 102685, -30123338, -26351672, -4901207, -20320924, -21450465, -40641848, -42900930 >>,
       << 130909, 103594, -30254636, -26470888, -4958371, -20337894, -21512517, -40675788, -43025034 >>,
       << 131818, 104503, -30386062, -26590322, -5015660, -20354742, -21574662, -40709484, -43149324 >>,
       << 132727, 105412, -30517617, -26709976, -5073075, -20371467, -21636901, -40742934, -43273802 >>,
       << 133636, 106321, -30649305, -26829850, -5130615, -20388075, -21699235, -40776150, -43398470 >>,
       << 134545, 107230, -30781125, -26949945, -5188278, -20404569, -21761667, -40809138, -43523334 >>,
       << 135455, 108140, -30913081, -27070261, -5246064, -20420953, -21824197, -40841906, -43648394 >>,
       << 136364, 109049, -31045173, -27190801, -5303974, -20437225, -21886827, -40874450, -43773654 >>,
       << 137273, 109958, -31177403, -27311564, -5362005, -20453393, -21949559, -40906786, -43899118 >>,
       << 138182, 110867, -31309772, -27432551, -5420159, -20469454, -22012392, -40938908, -44024784 >>,
       << 139091, 111776, -31442282, -27553763, -5478434, -20485414, -22075329, -40970828, -44150658 >>,
       << 140000, 112685, -31574934, -27675199, -5536830, -20501274, -22138369, -41002548, -44276738 >> >>

\* position of column k in a header
ColumnIndex(header, k) == CHOOSE j \in 1..Len(header) : header[j] = k

\* pd.read_csv(io.StringIO(embedded_csv))
EmbeddedTable(header, data) ==
    [source  |-> "embedded",
     columns |-> header,
     rows    |-> [i \in 1..Len(data) |->
                    [k \in {header[j] : j \in 1..Len(header)} |->
                        Rat(data[i][ColumnIndex(header, k)], 100)]]]

\* pd.read_csv(p) of the file compute_cu_o_data writes
FileTable ==
    [source  |-> "file",
     columns |-> CuoColumns,
     rows    |-> [i \in 1..N_POINTS |->
                    [k \in {CuoColumns[j] : j \in 1..Len(CuoColumns)} |->
                        ReadCsvField(CsvField(Num(CuoRow(i - 1)[k]))).v]]]

VizPrograms == {"notebooks/cu_o_visualization", "pycalphad/cu_o_visualization"}

\* one of possible_paths exists
VizLoadFile ==
    /\ VizFrame
    /\ prog \in VizPrograms /\ pc = "viz_load"
    /\ vizDf' = FileTable
    /\ pc' = "viz_loaded"

\* none exists: the fallback
VizLoadEmbedded ==
    /\ VizFrame
    /\ prog \in VizPrograms /\ pc = "viz_load"
    /\ vizDf' = IF prog = "notebooks/cu_o_visualization"
                THEN EmbeddedTable(VizHeaderNb, VizDataNb)
                ELSE EmbeddedTable(VizHeaderPy, VizDataPy)
    /\ pc' = "viz_loaded"

---------------------------------------------------------------------------
(* Functions called on their own, on arguments drawn from bounded sets.    *)

\* no call is made by the other programs
NoCall == [f |-> "none"]

\* longest list of stable phases a call is given
GpgMaxStable == 3

\* phase names the service may report: two that match patterns of FeO (one in
\* lower case, one through a longer name), one shared by MgO and FeO, one of Cu2O
GpgPhases == <<"HALITE", "Wustite", "FEO_LIQ", "CUPRITE#2">>

\* GM(phase) when it can be read
GpgPhaseGM(phase) ==
    LET i == CHOOSE j \in 1..Len(GpgPhases) : GpgPhases[j] = phase
    IN  RatInt(1000 * (i - 3))

\* result.get_stable_phases(): lists of distinct phases
GpgStableLists ==
    {s \in UNION {[1..n -> {GpgPhases[j] : j \in 1..Len(GpgPhases)}] : n \in 0..GpgMaxStable} :
        \A a, b \in 1..Len(s) : a # b => s[a] # s[b]}

\* the results a call of get_phase_gibbs may be given: for every stable phase
\* GM(phase) is read or reading it raises
GpgResults ==
    {[stable |-> s, GM |-> RatInt(-500),
      phaseGM |-> [q \in {s[j] : j \in 1..Len(s)} |->
                      IF q \in readable THEN Num(GpgPhaseGM(q)) ELSE NoneV]] :
        s \in GpgStableLists,
        readable \in SUBSET {GpgPhases[j] : j \in 1..Len(GpgPhases)}}

\* get_phase_gibbs(result, config["phase_patterns"]) for an oxide of OXIDES
GpgCalls ==
    {[f |-> "get_phase_gibbs", result |-> r, phase_patterns |-> OXIDES[o].phase_patterns] :
        r \in GpgResults, o \in 1..Len(OXIDES)}

GpgCall ==
    /\ FnFrame
    /\ prog = "get_phase_gibbs" /\ pc = "gpg_call"
    /\ callRet' = get_phase_gibbs(callArgs.result, callArgs.phase_patterns)
    /\ pc' = "gpg_returned"
    /\ UNCHANGED callArgs

\* longest header a raw export is given when the column choice is run alone
PoMaxColumns == 2

\* column names a raw export may carry, as pandas reads them, and what the
\* column holds
PoColumnPool == <<
    [name |-> "T",            holds |-> "temperature"],
    [name |-> " t [K] ",      holds |-> "temperature"],
    [name |-> "Temperature",  holds |-> "temperature"],
    [name |-> "GM",           holds |-> "gibbs"],
    [name |-> " g [J/mol]",   holds |-> "gibbs"],
    [name |-> "GM(TENORITE)", holds |-> "gibbs"],
    [name |-> "X",            holds |-> "other"],
    [name |-> "H",            holds |-> "other"] >>

PoNames == {PoColumnPool[i].name : i \in 1..Len(PoColumnPool)}

\* df.columns of a raw export: distinct names
PoHeaders ==
    {h \in UNION {[1..n -> PoNames] : n \in 1..PoMaxColumns} :
        \A a, b \in 1..Len(h) : a # b => h[a] # h[b]}

PoCalls == {[f |-> "process_oxide", columns |-> h] : h \in PoHeaders}

\* lines 31-35 of process_oxide: strip the names, take the first column with a
\* 'T' and the first with a 'G'; [0] of an empty list raises IndexError
PoSelectColumns ==
    /\ FnFrame
    /\ prog = "process_oxide" /\ pc = "po_columns"
    /\ LET cols  == StripColumns(callArgs.columns)
           t_col == FirstWith("T", cols)
           g_col == FirstWith("G", cols)
       IN  IF t_col = 0 \/ g_col = 0
           THEN Crash /\ UNCHANGED callRet
           ELSE callRet' = <<cols[t_col], cols[g_col]>> /\ pc' = "po_selected"
    /\ UNCHANGED callArgs

FnInit ==
    /\ callArgs \in (CASE prog = "get_phase_gibbs" -> GpgCalls
                       [] prog = "process_oxide" -> PoCalls
                       [] OTHER -> {NoCall})
    /\ callRet = <<>>

Programs ==
    {"process_tc_data", "extract_oxide_gibbs", "cu_al_o_phase_stability",
     "cu_ceramic_affinity", "cu_ceramic_thermodynamics", "compute_cu_o_data",
     "notebooks/cu_o_visualization", "pycalphad/cu_o_visualization",
     "get_phase_gibbs", "process_oxide"}

StartPc(p) ==
    CASE p = "process_tc_data"     -> "tc_oxides"
      [] p = "extract_oxide_gibbs" -> "ex_connect"
      [] p = "cu_al_o_phase_stability" -> "ca_connect"
      [] p = "cu_ceramic_affinity" -> "aff_ellingham"
      [] p = "cu_ceramic_thermodynamics" -> "th_interactive"
      [] p = "compute_cu_o_data" -> "cuo_load"
      [] p = "get_phase_gibbs" -> "gpg_call"
      [] p = "process_oxide" -> "po_columns"
      [] OTHER -> "viz_load"

\* the cell of a notebook a behaviour exercises
StartPcs(p) ==
    {StartPc(p)} \cup (IF p = "cu_ceramic_thermodynamics" THEN {"th_sulfide"} ELSE {})

Init ==
    /\ prog \in Programs
    /\ pc \in StartPcs(prog)
    /\ TcInit
    /\ ExInit
    /\ CaInit
    /\ AffInit
    /\ ThInit
    /\ CuoInit
    /\ SfInit
    /\ vizDf = <<>>
    /\ FnInit

Next ==
    \/ TcOxideSkip
    \/ TcOxideProcess
    \/ TcActivitySkip
    \/ TcActivityProcess
    \/ ExConnect
    \/ ExConnectFails
    \/ ExO2Select
    \/ ExO2Step
    \/ ExO2Fails
    \/ ExOxideSelect
    \/ ExMetalStep
    \/ ExSystemError
    \/ ExOxideStep
    \/ ExOxideStepFails
    \/ ExWriteCsv
    \/ CaConnect
    \/ CaSetup
    \/ CaSetT
    \/ CaUncaught
    \/ CaCalc
    \/ CaCalcFails
    \/ CaWriteCsv
    \/ AffEllingham
    \/ AffPlot
    \/ ThMoveSlider
    \/ ThToggleOxide
    \/ CuoLoadDb
    \/ CuoLoadFails
    \/ CuoCompute
    \/ CuoWriteCsv
    \/ AffSulfide
    \/ ThMoveSulfide
    \/ VizLoadFile
    \/ VizLoadEmbedded
    \/ GpgCall
    \/ PoSelectColumns

Spec == Init /\ [][Next]_vars

---------------------------------------------------------------------------
(* Properties.                                                             *)

\* the column of oxide `name` in a results row
Col(prefix, name, suffix) == prefix \o name \o suffix

\* the step taken is a failed O2 reference calculation at a grid temperature
O2CalcFailed == ExO2Fails /\ pc = "ex_o2_loop"

\* the step taken is a failed metal reference calculation at a grid temperature
MetalCalcFailed == ExSystemError /\ pc = "ex_metal"

\* the temperature loop at position `here` goes on with the next temperature
LoopContinues(here) ==
    tIdx < ExNumTemps => (pc' = here /\ tIdx' = tIdx + 1 /\ oxIdx' = oxIdx)

\* a failed oxide equilibrium leaves its marker and touches nothing else
OxideFailureIsLocal ==
    ExOxideStepFails =>
        LET T == ExTemperatures[tIdx]
            n == OXIDES[oxIdx].name
        IN  /\ GetOrEmpty(results'[T], Col("phases_", n, "")) = Str("Error: e")
            /\ GetOrEmpty(results'[T], Col("GM_", n, "")) = NoneV
            /\ GetOrEmpty(results'[T], Col("dG_", n, "_per_O2")) = NoneV
            /\ \A T2 \in ExTempSet \ {T} : results'[T2] = results[T2]
            /\ \A k \in DOMAIN results[T] :
                  k \notin {Col("phases_", n, ""), Col("GM_", n, ""), Col("dG_", n, "_per_O2")}
                      => results'[T][k] = results[T][k]
            /\ G_O2' = G_O2 /\ G_metal' = G_metal
            /\ LoopContinues("ex_oxide")

\* a failed Cu-Al-O equilibrium appends its error row and keeps the earlier rows
CuAlOFailureIsLocal ==
    CaCalcFails =>
        /\ Len(caResults') = Len(caResults) + 1
        /\ caResults'[Len(caResults')].phases = "ERROR: e"
        /\ caResults'[Len(caResults')].T_C = RatInt(TEMPERATURES_C[cIdx])
        /\ SubSeq(caResults', 1, Len(caResults)) = caResults
        /\ (cIdx < CaNumTemps => (pc' = "ca_set_T" /\ cIdx' = cIdx + 1))

TcFactorOf(name) ==
    TcOxides[CHOOSE i \in 1..Len(TcOxides) : OutName(TcOxides[i].file) = name].o2_factor

IsOxideOut(f) == f.columns = OxideOutColumns

ThT_K == RatInt(thSlider + 273)

\* C2: the per-mole-O2 value times the oxide's O2 factor gives back the raw
\* formation energy: in every row written by process_oxide, in every entry of the
\* ranking table (calc_dGf_per_O2 against calc_dGf) and in every comparison-oxide
\* cell of the compute_cu_o_data table (against 1000 * (A + B*T)).
C2_PerMolO2 ==
    /\ IsOxideOut(lastOut) =>
          \A i \in 1..Len(lastOut.rows) :
              RatMul(lastOut.rows[i].dGf_kJ_per_molO2, TcFactorOf(lastOut.name))
                  = lastOut.rows[i].GM_kJ
    /\ \A i \in 1..Len(rankings) :
          RatMul(rankings[i][2], OxideDatum(rankings[i][1]).O2_factor)
              = calc_dGf(rankings[i][1], ThT_K)
    /\ \A i \in 1..Len(df) : \A n \in 1..Len(COMPARISON_OXIDES) :
          LET o == COMPARISON_OXIDES[n]
          IN  RatMul(df[i][Col("dG_", o.name, "_per_O2")], o.O2_factor)
                  = RatMul(JPerKJ, Linear(o.A, o.B, df[i]["T_K"]))

\* process_oxide wrote a row for Al2O3 (factor 1.5) with a non-zero energy
C2_Witness ==
    /\ IsOxideOut(lastOut)
    /\ lastOut.name = OutName(TcOxides[3].file)
    /\ Len(lastOut.rows) > 0
    /\ lastOut.rows[1].GM_J[1] # 0

\* C3: wherever extract_oxide_gibbs recorded a dG, it balances the reaction per
\* mole of O2 with the energies of the same row:
\* dG + metal_per_O2 * G_metal + G_O2 = oxide_per_O2 * GM.
C3_FormationBalance ==
    prog = "extract_oxide_gibbs" =>
        \A o \in 1..ExOxideCount : \A T \in ExTempSet :
            LET n  == OXIDES[o].name
                dG == Col("dG_", n, "_per_O2")
            IN  (dG \in DOMAIN results[T] /\ results[T][dG].t = "num") =>
                    RatAdd(RatAdd(results[T][dG].v,
                                  RatMul(OXIDES[o].metal_per_O2,
                                         results[T][Col("G_metal_", n, "")].v)),
                           G_O2[T])
                        = RatMul(OXIDES[o].oxide_per_O2, results[T][Col("GM_", n, "")].v)

\* a dG of Al2O3 (fractional coefficients) was recorded from the oxide's own phase
C3_Witness ==
    /\ prog = "extract_oxide_gibbs"
    /\ \E T \in ExTempSet :
          /\ Col("dG_", "Al2O3", "_per_O2") \in DOMAIN results[T]
          /\ results[T][Col("dG_", "Al2O3", "_per_O2")].t = "num"
          /\ results[T][Col("oxide_phase_", "Al2O3", "")] = Str("CORUNDUM#1")
          /\ results[T][Col("GM_", "Al2O3", "")] # results[T][Col("GM_system_", "Al2O3", "")]
          /\ G_O2[T] # RatInt(0)

\* the ordering compute_cu_o_data prints as expected, line 215
ExpectedOrdering == <<"MgO", "Al2O3", "TiO2", "SiO2", "FeO", "Cu2O", "CuO">>

PositionIn(list, name) == CHOOSE i \in 1..Len(list) : list[i][1] = name

\* C4: once ellingham_comparison has run, its sorted list is the expected
\* ordering, with MgO before Al2O3 before Cu2O.
C4_Ranking ==
    (prog = "cu_ceramic_affinity" /\ pc \in {"aff_plot", "aff_done"}) =>
        /\ [i \in 1..Len(sorted_oxides) |-> sorted_oxides[i][1]] = ExpectedOrdering
        /\ PositionIn(sorted_oxides, "MgO") < PositionIn(sorted_oxides, "Al2O3")
        /\ PositionIn(sorted_oxides, "Al2O3") < PositionIn(sorted_oxides, "Cu2O")
        /\ \A i \in 1..(Len(sorted_oxides) - 1) :
              RatLt(sorted_oxides[i][2], sorted_oxides[i + 1][2])

C4_Witness ==
    prog = "cu_ceramic_affinity" /\ pc = "aff_done" /\ Len(sorted_oxides) = 7

\* C5: kJ = J / 1000 and Celsius = Kelvin - 273.15 in every row written.
C5_UnitConversions ==
    /\ IsOxideOut(lastOut) =>
          \A i \in 1..Len(lastOut.rows) :
              /\ RatMul(lastOut.rows[i].GM_kJ, RatInt(1000)) = lastOut.rows[i].GM_J
              /\ RatAdd(lastOut.rows[i].T_C, Rat(27315, 100)) = lastOut.rows[i].T_K
    /\ \A i \in 1..Len(csv.rows) :
          RatAdd(csv.rows[i]["T_C"].v, Rat(27315, 100)) = csv.rows[i]["T_K"].v
    /\ \A i \in 1..Len(cuoCsv.rows) :
          RatAdd(cuoCsv.rows[i]["T_C"].v, Rat(27315, 100)) = cuoCsv.rows[i]["T_K"].v
    /\ \A i \in 1..Len(caCsv.rows) :
          RatAdd(caCsv.rows[i].T_C, Rat(27315, 100)) = caCsv.rows[i].T_K

C5_Witness ==
    /\ IsOxideOut(lastOut)
    /\ Len(lastOut.rows) > 0
    /\ lastOut.rows[1].T_K = RatInt(1873)
    /\ lastOut.rows[1].GM_J = RatInt(-340500)

\* the integer nearest to r
Nearest(r) == RatFloor(RatAdd(r, Rat(1, 2)))

RankingOf(name) == rankings[PositionIn(rankings, name)][2]

\* C6 as claimed: the Cu2O model at 1873 K gives -29.5 kJ/mol and -59 kJ per
\* mole O2.
C6_AsClaimed ==
    /\ (prog = "cu_ceramic_affinity" /\ pc = "aff_done") =>
          /\ gibbs_formation_cu2o(RatInt(T_steel)) = Rat(-295, 10)
          /\ affOxides[1] = <<"Cu2O", RatInt(-59)>>
    /\ (prog = "cu_ceramic_thermodynamics" /\ thSlider = 1600 /\ "Cu2O" \in thSelected) =>
          RankingOf("Cu2O") = RatInt(-59)

\* C6 amended: the Cu2O model at 1873 K gives -29.525 kJ/mol and -59.05 kJ per
\* mole O2, which are the documented -29.5 and -59 after rounding to one
\* decimal and to an integer.
C6_Amended ==
    /\ (prog = "cu_ceramic_affinity" /\ pc = "aff_done") =>
          /\ gibbs_formation_cu2o(RatInt(T_steel)) = Rat(-29525, 1000)
          /\ Nearest(RatMul(gibbs_formation_cu2o(RatInt(T_steel)), RatInt(10))) = -295
          /\ affOxides[1] = <<"Cu2O", Rat(-5905, 100)>>
          /\ Nearest(affOxides[1][2]) = -59
    /\ (prog = "cu_ceramic_thermodynamics" /\ thSlider = 1600 /\ "Cu2O" \in thSelected) =>
          /\ ThT_K = RatInt(1873)
          /\ RankingOf("Cu2O") = Rat(-5905, 100)
          /\ RatMul(RankingOf("Cu2O"), Rat(1, 2)) = Rat(-29525, 1000)
          /\ Nearest(RankingOf("Cu2O")) = -59

C6_Witness ==
    prog = "cu_ceramic_affinity" /\ pc = "aff_done" /\ affOxides[1][1] = "Cu2O"

\* the Cu2O melting point in K
Cu2OMeltK == RatAdd(RatInt(Cu2OMeltC), KelvinOffset)

\* the written table marks a column as invalid somewhere: a column for it, or a
\* cell that is not a number
CuoFlagged(i, col) ==
    \/ cuoCsv.rows[i][col].t # "lit"
    \/ \E j \in 1..Len(cuoCsv.header) :
          StrIn("FLAG", StrUpper(cuoCsv.header[j])) \/ StrIn("VALID", StrUpper(cuoCsv.header[j]))

\* C7: every Cu2O formation energy written for a temperature above the Cu2O
\* melting point comes from another phase than solid CU2O or is flagged.
C7_NoSilentExtrapolation ==
    cuoCsv.written =>
        \A i \in 1..Len(cuoCsv.rows) :
            RatLt(Cu2OMeltK, cuoCsv.rows[i]["T_K"].v) =>
                \/ cuoCalls.Cu2O.phase # "CU2O"
                \/ CuoFlagged(i, "dG_cu2o_per_O2")

\* C8: a raw export that exists but cannot be used does not end the run.
C8_UnusableFileNotFatal ==
    prog = "process_tc_data" => ~Crashed

\* C9: a run of process_tc_data ends at Done! with a processed CSV for exactly
\* the raw files that exist and a logged skip for exactly the others.
C9_ExactlyExistingProcessed ==
    (prog = "process_tc_data" /\ pc \notin {"tc_oxides", "tc_activity"}) =>
        /\ pc = "tc_done"
        /\ written = {OutName(f) : f \in present}
        /\ skipped = TcAllFiles \ present

\* C10: once the temperature loop has started no exception leaves the run, and
\* the written file holds every metal reference energy still in memory.
C10_BestEffort ==
    /\ (prog \in ServicePrograms /\ Crashed) =>
          pc \in {"crashed@ex_connect", "crashed@ca_connect", "crashed@ca_setup"}
    /\ (prog = "extract_oxide_gibbs" /\ pc = "ex_done") =>
          \A i \in 1..ExNumTemps :
              ExTemperatures[i] \in DOMAIN G_metal =>
                  \E k \in DOMAIN csv.rows[i] :
                      /\ StrIn("G_metal_", k)
                      /\ csv.rows[i][k].t = "lit"
                      /\ csv.rows[i][k].v = G_metal[ExTemperatures[i]]


---------------------------------------------------------------------------
(* simulations/notebooks/ellingham_diagram.py: the columns the notebook    *)
(* reads from oxide_gibbs_energies.csv, lines 74-86                        *)
EllinghamColumns ==
    <<"T_K", "T_C", "dG_Cu2O_per_O2", "dG_CuO_per_O2", "dG_Al2O3_per_O2",
      "dG_MgO_per_O2", "dG_SiO2_per_O2", "dG_TiO2_per_O2", "dG_FeO_per_O2">>

SeqToSet(q) == {q[j] : j \in 1..Len(q)}

SevenOxides == <<"Cu2O", "CuO", "Al2O3", "MgO", "SiO2", "TiO2", "FeO">>

\* the six columns of oxide number n, then those of the oxides after it
RECURSIVE ColumnsFrom(_)
ColumnsFrom(n) ==
    IF n > Len(SevenOxides) THEN <<>>
    ELSE << Col("GM_", SevenOxides[n], ""), Col("GM_system_", SevenOxides[n], ""),
            Col("G_metal_", SevenOxides[n], ""), Col("dG_", SevenOxides[n], "_per_O2"),
            Col("phases_", SevenOxides[n], ""), Col("oxide_phase_", SevenOxides[n], "") >>
         \o ColumnsFrom(n + 1)

\* C11: whenever oxide_gibbs_energies.csv is written its header is T_K, T_C and
\* the six columns of each of the seven oxides, every row has a cell for every
\* column, and every column the Ellingham notebook reads is in the header.
C11_FixedHeader ==
    csv.written =>
        /\ csv.header = <<"T_K", "T_C">> \o ColumnsFrom(1)
        /\ Len(csv.header) = 44
        /\ \A i \in 1..Len(csv.rows) : DOMAIN csv.rows[i] = SeqToSet(csv.header)
        /\ SeqToSet(EllinghamColumns) \subseteq SeqToSet(csv.header)

\* the file was written after one oxide failed at a temperature and another
\* oxide was abandoned with a system error
C11_Witness ==
    /\ csv.written
    /\ \E i \in 1..Len(csv.rows) :
          /\ csv.rows[i]["phases_Cu2O"] = Str("Error: e")
          /\ csv.rows[i]["dG_Cu2O_per_O2"] = Str("")
          /\ csv.rows[i]["phases_CuO"] = Str("")


\* the rows written so far hold the grid temperatures in order, once each
GridRowsInOrder ==
    /\ prog = "extract_oxide_gibbs" =>
          /\ DOMAIN results = ExTempSet
          /\ \A i \in 1..ExNumTemps :
                /\ results[ExTemperatures[i]]["T_K"] = Num(RatInt(ExT_MIN + (i - 1) * ExT_STEP))
                /\ results[ExTemperatures[i]]["T_C"]
                      = Num(RatSub(RatInt(ExT_MIN + (i - 1) * ExT_STEP), Rat(27315, 100)))
          /\ csv.written =>
                /\ Len(csv.rows) = ExNumTemps
                /\ \A i \in 1..ExNumTemps :
                      csv.rows[i]["T_K"].v = RatInt(ExT_MIN + (i - 1) * ExT_STEP)
                /\ \A i \in 1..(ExNumTemps - 1) :
                      /\ RatLt(csv.rows[i]["T_K"].v, csv.rows[i + 1]["T_K"].v)
                      /\ RatLt(csv.rows[i]["T_C"].v, csv.rows[i + 1]["T_C"].v)
    /\ prog = "cu_al_o_phase_stability" =>
          /\ \A i \in 1..Len(caResults) :
                caResults[i].T_C = RatInt(CaT_START + (i - 1) * CaT_STEP)
          /\ \A i \in 1..(Len(caResults) - 1) :
                /\ RatLt(caResults[i].T_C, caResults[i + 1].T_C)
                /\ RatLt(caResults[i].T_K, caResults[i + 1].T_K)
          /\ caCsv.written => (caCsv.rows = caResults /\ Len(caCsv.rows) = CaNumTemps)

\* a step leaves the temperatures of the rows that exist as they are
RowTemperaturesKept ==
    /\ \A T \in DOMAIN results :
          /\ T \in DOMAIN results'
          /\ results'[T]["T_K"] = results[T]["T_K"]
          /\ results'[T]["T_C"] = results[T]["T_C"]
    /\ Len(caResults') >= Len(caResults)
    /\ \A i \in 1..Len(caResults) :
          /\ caResults'[i].T_C = caResults[i].T_C
          /\ caResults'[i].T_K = caResults[i].T_K
    /\ csv.written => csv' = csv
    /\ caCsv.written => caCsv' = caCsv

\* C12: the configured grids have 31 and 15 temperatures; the rows held and
\* written carry the grid temperatures exactly once each in strictly increasing
\* order, whatever failed, and no step changes the T_K or T_C of an existing row.
C12_MonotonicGrid ==
    /\ [](ExGridLen = 31 /\ CaGridLen = 15 /\ GridRowsInOrder)
    /\ [][RowTemperaturesKept]_vars

\* cu_al_o_phases.csv was written after a failed and a successful calculation
C12_Witness ==
    /\ caCsv.written
    /\ Len(caCsv.rows) = CaNumTemps
    /\ \E i \in 1..Len(caCsv.rows) : caCsv.rows[i].phases = "ERROR: e"
    /\ \E i \in 1..Len(caCsv.rows) : caCsv.rows[i].phases # "ERROR: e"


\* the OXIDES entry of extract_oxide_gibbs for the oxide `name`
OxideCfg(name) == OXIDES[CHOOSE i \in 1..Len(OXIDES) : OXIDES[i].name = name]

\* moles of O2 per mole of metal, and per mole of oxide, in the reaction written
\* per mole of O2 in OXIDES
O2PerMetal(name) == RatInv(OxideCfg(name).metal_per_O2)
O2PerOxide(name) == RatInv(OxideCfg(name).oxide_per_O2)

\* the factor the two scripts give the oxide number i of OXIDES
TcFactor(i) == TcOxides[i].o2_factor
ThFactor(i) == OxideDatum(OXIDES[i].name).O2_factor

\* the listed factors: 0.5 for Cu2O, CuO, MgO, FeO; 1.5 for Al2O3; 1 for SiO2, TiO2
ListedFactor(name) ==
    CASE name \in {"Cu2O", "CuO", "MgO", "FeO"} -> Rat(1, 2)
      [] name = "Al2O3" -> Rat(3, 2)
      [] OTHER -> Rat(1, 1)

\* every processed oxide row and every ranking entry was computed with factor f(name)
OutputsUseFactor(f(_)) ==
    /\ IsOxideOut(lastOut) =>
          \A i \in 1..Len(lastOut.rows) :
              LET n == CHOOSE k \in 1..Len(TcOxides) : OutName(TcOxides[k].file) = lastOut.name
              IN  RatMul(lastOut.rows[i].dGf_kJ_per_molO2, f(OXIDES[n].name)) = lastOut.rows[i].GM_kJ
    /\ \A i \in 1..Len(rankings) :
          RatMul(rankings[i][2], f(rankings[i][1])) = calc_dGf(rankings[i][1], ThT_K)

\* C13 as claimed: each factor is the listed positive rational and equals the
\* moles of O2 consumed per mole of metal oxidized, in every state of a run.
C13_AsClaimed ==
    /\ \A i \in 1..Len(OXIDES) :
          /\ TcFactor(i) = ListedFactor(OXIDES[i].name)
          /\ ThFactor(i) = ListedFactor(OXIDES[i].name)
          /\ TcFactor(i) = O2PerMetal(OXIDES[i].name)
    /\ OutputsUseFactor(O2PerMetal)

\* C13 amended: each factor is the listed positive rational and equals the moles
\* of O2 consumed per mole of oxide formed (half the oxygen atoms of the formula
\* unit); every output of a run is computed with that same factor.
C13_Amended ==
    /\ \A i \in 1..Len(OXIDES) :
          /\ TcFactor(i) = ListedFactor(OXIDES[i].name)
          /\ ThFactor(i) = ListedFactor(OXIDES[i].name)
          /\ TcFactor(i) = O2PerOxide(OXIDES[i].name)
          /\ RatLt(RatInt(0), TcFactor(i))
    /\ OutputsUseFactor(O2PerOxide)

\* a Cu2O table was written: the oxide whose factor per mole of metal is 0.25
C13_Witness ==
    /\ IsOxideOut(lastOut)
    /\ lastOut.name = OutName(TcOxides[1].file)
    /\ Len(lastOut.rows) > 0
    /\ O2PerMetal("Cu2O") = Rat(1, 4)
    /\ O2PerOxide("Cu2O") = Rat(1, 2)


\* C14: in every row of the compute_cu_o_data table, G_cu2o = 3 * GM(CU2O) and
\* G_cuo = 2 * GM(CUO), the formation energies are G_cu2o - 2*GHSERCU - GHSEROO
\* and G_cuo - GHSERCU - GHSEROO, and each per-mole-O2 column is twice the
\* formation column; the written file holds the same numbers.
C14_CuOFormation ==
    /\ \A i \in 1..Len(df) :
          LET r == df[i]
              T == Linspace(CuoT_MIN, CuoT_MAX, N_POINTS, i - 1)
          IN  /\ r["T_K"] = T
              /\ r["G_cu2o"] = RatMul(RatInt(3), PyCalphadGM("CU2O", T))
              /\ r["G_cuo"] = RatMul(RatInt(2), PyCalphadGM("CUO", T))
              /\ r["G_cu_ref"] = GHSERCU(T).val
              /\ r["G_O_ref"] = GHSEROO(T).val
              /\ r["dG_cu2o_formation"]
                    = RatSub(RatSub(r["G_cu2o"], RatMul(RatInt(2), r["G_cu_ref"])), r["G_O_ref"])
              /\ r["dG_cuo_formation"]
                    = RatSub(RatSub(r["G_cuo"], r["G_cu_ref"]), r["G_O_ref"])
              /\ r["dG_cu2o_per_O2"] = RatAdd(r["dG_cu2o_formation"], r["dG_cu2o_formation"])
              /\ r["dG_cuo_per_O2"] = RatAdd(r["dG_cuo_formation"], r["dG_cuo_formation"])
    /\ cuoCsv.written =>
          \A i \in 1..Len(cuoCsv.rows) : \A k \in DOMAIN df[i] :
              cuoCsv.rows[i][k].v = df[i][k]

\* the table was computed on the whole grid, on both sides of 1358 K
C14_Witness ==
    /\ Len(df) = N_POINTS
    /\ df[1]["T_K"] = RatInt(500)
    /\ df[N_POINTS]["T_K"] = RatInt(1900)
    /\ GHSERCU(df[1]["T_K"]).piece # GHSERCU(df[N_POINTS]["T_K"]).piece
    /\ df[N_POINTS]["dG_cu2o_per_O2"] # RatInt(0)


---------------------------------------------------------------------------
(* Round trips through the CSV files.                                      *)

\* the value results[T] holds under key k, if any
Held(T, k) == IF k \in DOMAIN results[T] THEN results[T][k] ELSE [t |-> "absent", v |-> RatInt(0), s |-> ""]

\* the columns of the oxides the run has gone through
ExProcessedColumns == SeqToSet(<<"T_K", "T_C">> \o ExOxideFields(ExOxideCount))

\* the oxide table is on disk and results is what was written
ExWritten == prog = "extract_oxide_gibbs" /\ pc = "ex_done" /\ csv.written

\* the numeric tables read back as they were held
NumericTablesRoundTrip ==
    /\ cuoCsv.written =>
          \A i \in 1..Len(cuoCsv.rows) : \A k \in DOMAIN cuoCsv.rows[i] :
              ReadCsvField(cuoCsv.rows[i][k]) = Num(df[i][k])
    /\ IsOxideOut(lastOut) =>
          \A i \in 1..Len(lastOut.rows) : \A k \in DOMAIN lastOut.rows[i] :
              ReadCsvField(CsvField(Num(lastOut.rows[i][k]))) = Num(lastOut.rows[i][k])

C16_SameOffset ==
    /\ IsOxideOut(lastOut) =>
          \A i \in 1..Len(lastOut.rows) :
              lastOut.rows[i].T_K = CelsiusToKelvin(lastOut.rows[i].T_C)
    /\ \A i \in 1..Len(caCsv.rows) :
          caCsv.rows[i].T_C = KelvinToCelsius(caCsv.rows[i].T_K)
    /\ prog = "cu_ceramic_thermodynamics" =>
          \A i \in 1..Len(rankings) :
              rankings[i][2]
                  = calc_dGf_per_O2(rankings[i][1], CelsiusToKelvin(RatInt(thSlider)))
    /\ (prog = "cu_ceramic_affinity" /\ pc = "aff_done") =>
          \A i \in DOMAIN affPlot.Cu2O :
              affPlot.Cu2O[i].x
                  = KelvinToCelsius(Linspace(800, 2000, AffPlotPoints, i))


\* the name in the last line of the ranking table, and in the line before it
LastRanked == rankings[Len(rankings)][1]
SecondLastRanked == rankings[Len(rankings) - 1][1]

\* the notebook shows a ranking for a selection that contains Cu2O
RankingWithCu2O == prog = "cu_ceramic_thermodynamics" /\ "Cu2O" \in thSelected

C19_SulfideFavorable ==
    /\ (prog = "cu_ceramic_thermodynamics" /\ pc = "th_sulfide") =>
          /\ sulfide_temp \in {SulfideStart + k * SulfideStep : k \in 0..16}
          /\ sulfide.T = RatInt(sulfide_temp + 273)
          /\ sulfide.dG_rxn = RatSub(sulfide.dGf_Cu2S, sulfide.dGf_FeS)
          /\ RatLt(sulfide.dG_rxn, RatInt(0))
          /\ sulfide.result = "FAVORABLE"
    /\ (prog = "cu_ceramic_affinity" /\ pc \in {"aff_plot", "aff_done"}) =>
          /\ RatLt(sulfide.dG_rxn, RatInt(0))
          /\ sulfide.result = "FAVORABLE"

\* the slider was moved to its highest position, where dG_rxn is closest to zero
C19_Witness ==
    /\ prog = "cu_ceramic_thermodynamics" /\ pc = "th_sulfide"
    /\ sulfide_temp = SulfideStop
    /\ sulfide.dG_rxn = Rat(-20135, 1000)


---------------------------------------------------------------------------
(* The tables embedded in the two cu_o_visualization notebooks.            *)

\* the notebook runs on its embedded table
OnEmbedded(p) == prog = p /\ pc = "viz_loaded" /\ vizDf.source = "embedded"

\* a is b rounded to two decimals
RoundsTo2(a, b) ==
    LET d == RatSub(a, b)
    IN  ~RatLt(Rat(1, 200), d) /\ ~RatLt(d, RatNeg(Rat(1, 200)))

\* C18: the table embedded in notebooks/cu_o_visualization.py is what
\* compute_cu_o_data produces: each dG_<oxide>_per_O2 of a comparison oxide is
\* 1000 * (A + B * T_K) / O2_factor to two decimals, and each copper oxide's
\* per_O2 column is twice its formation column.
C18_EmbeddedMatchesScript ==
    OnEmbedded("notebooks/cu_o_visualization") =>
        \A i \in 1..Len(vizDf.rows) :
            LET row == vizDf.rows[i]
            IN  /\ \A k \in 1..Len(COMPARISON_OXIDES) :
                      LET o == COMPARISON_OXIDES[k]
                      IN  RoundsTo2(row["dG_" \o o.name \o "_per_O2"],
                                    calc_comparison_oxide_dG(o, row["T_K"]))
                /\ row["dG_cu2o_per_O2"] = RatMul(RatInt(2), row["dG_cu2o_formation"])
                /\ row["dG_cuo_per_O2"]  = RatMul(RatInt(2), row["dG_cuo_formation"])

\* C20: in the table embedded in pycalphad/cu_o_visualization.py every row
\* above 1000 C has dG_cu2o_per_O2 below dG_cuo_per_O2.
C20_Cu2OMoreStableAbove1000C ==
    OnEmbedded("pycalphad/cu_o_visualization") =>
        \A i \in 1..Len(vizDf.rows) :
            RatLt(RatInt(1000), vizDf.rows[i]["T_C"]) =>
                RatLt(vizDf.rows[i]["dG_cu2o_per_O2"], vizDf.rows[i]["dG_cuo_per_O2"])


---------------------------------------------------------------------------
(* extract_oxide_gibbs: which energy a recorded dG was computed from.      *)

\* the dG cell of oxide o at temperature T holds a number
DGRecorded(o, T) ==
    /\ Col("dG_", OXIDES[o].name, "_per_O2") \in DOMAIN results[T]
    /\ results[T][Col("dG_", OXIDES[o].name, "_per_O2")].t = "num"

\* the GM and dG cells of oxide o at grid point t come from the energy gm
CellsComputedFrom(o, t, gm) ==
    LET T == ExTemperatures[t]
        n == OXIDES[o].name
    IN  /\ results[T][Col("GM_", n, "")] = Num(gm)
        /\ results[T][Col("dG_", n, "_per_O2")] =
              Num(DGPerO2(OXIDES[o], gm, results[T][Col("G_metal_", n, "")].v, G_O2[T]))

\* C21: wherever a dG is recorded, the dG and GM cells come from the energy of
\* the phase the oxide_phase cell names, and from the energy of the whole
\* system when that cell is NOT_FOUND.
C21_PhaseOrSystem ==
    prog = "extract_oxide_gibbs" =>
        \A o \in 1..ExOxideCount : \A t \in 1..ExNumTemps :
            LET T      == ExTemperatures[t]
                result == SvcOxideResult(svc, o, t)
                named  == results[T][Col("oxide_phase_", OXIDES[o].name, "")]
            IN  DGRecorded(o, T) =>
                    IF named = Str("NOT_FOUND")
                    THEN CellsComputedFrom(o, t, result.GM)
                    ELSE /\ named.s \in DOMAIN result.phaseGM
                         /\ result.phaseGM[named.s].t = "num"
                         /\ CellsComputedFrom(o, t, result.phaseGM[named.s].v)


---------------------------------------------------------------------------
(* get_phase_gibbs on its own.                                             *)

\* pattern.upper() in phase.upper()
PatternMatches(pattern, phase) == StrIn(StrUpper(pattern), StrUpper(phase))

\* stable phase q of the result matches pattern p and its GM can be read
UsablePair(result, patterns, p, q) ==
    /\ PatternMatches(patterns[p], result.stable[q])
    /\ result.phaseGM[result.stable[q]].t = "num"

\* some stable phase is usable for pattern p
UsablePattern(result, patterns, p) ==
    \E q \in 1..Len(result.stable) : UsablePair(result, patterns, p, q)

GpgReturned == prog = "get_phase_gibbs" /\ pc = "gpg_returned"

\* C22: get_phase_gibbs returns the energy and the name of a stable phase that
\* matches the earliest pattern for which a matching stable phase can be read,
\* and (None, None) exactly when no pattern has one.
C22_PatternPriority ==
    GpgReturned =>
        LET result   == callArgs.result
            patterns == callArgs.phase_patterns
            usable   == {p \in 1..Len(patterns) : UsablePattern(result, patterns, p)}
        IN  IF usable = {}
            THEN callRet = <<NoneV, NoneV>>
            ELSE LET first == CHOOSE p \in usable : \A p2 \in usable : p <= p2
                 IN  /\ callRet[2].t = "str"
                     /\ \E q \in 1..Len(result.stable) :
                           /\ UsablePair(result, patterns, first, q)
                           /\ callRet[2] = Str(result.stable[q])
                           /\ callRet[1] = result.phaseGM[result.stable[q]]

\* a call that fell through an unreadable match of the first pattern and
\* returned a phase of the second pattern listed after a phase of the third
C22_Witness ==
    /\ GpgReturned
    /\ callArgs.phase_patterns = <<"HALITE", "FEO", "WUSTITE">>
    /\ callArgs.result.stable = <<"Wustite", "HALITE", "FEO_LIQ">>
    /\ callArgs.result.phaseGM["HALITE"] = NoneV
    /\ callArgs.result.phaseGM["Wustite"].t = "num"
    /\ callRet = <<Num(RatInt(0)), Str("FEO_LIQ")>>


---------------------------------------------------------------------------
(* The linear formation-energy model across the scripts.                   *)

\* the per-mole-O2 value ellingham_comparison computes for an oxide at T (kJ)
AffPerO2(name, T) ==
    LET oxides == AffOxidesAt(T)
    IN  oxides[CHOOSE i \in 1..Len(oxides) : oxides[i][1] = name][2]

\* temperatures at which the linear models are compared: two points fix a line
LinearProbes == {RatInt(0), RatInt(1000), RatInt(T_steel)}

\* the coefficients and factors agree between the scripts
SameLinearModel ==
    /\ \A i \in 1..Len(oxide_data) : \A T \in LinearProbes :
          AffPerO2(oxide_data[i].name, T) = calc_dGf_per_O2(oxide_data[i].name, T)
    /\ \A k \in 1..Len(COMPARISON_OXIDES) :
          LET o == COMPARISON_OXIDES[k]
          IN  /\ o.A = OxideDatum(o.name).A
              /\ o.B = OxideDatum(o.name).B
              /\ o.O2_factor = OxideDatum(o.name).O2_factor
              /\ \A T \in LinearProbes :
                    calc_comparison_oxide_dG(o, T) = RatMul(calc_dGf_per_O2(o.name, T), JPerKJ)
    /\ \A i \in 1..Len(OXIDES) :
          /\ OxideDatum(OXIDES[i].name).O2_factor = TcOxides[i].o2_factor
          /\ OxideDatum(OXIDES[i].name).O2_factor = RatInv(OXIDES[i].oxide_per_O2)

\* what each script has computed is what the other scripts' models give at the
\* same temperature
SameLinearOutputs ==
    /\ \A i \in 1..Len(affOxides) :
          affOxides[i][2] = calc_dGf_per_O2(affOxides[i][1], RatInt(T_steel))
    /\ \A i \in 1..Len(rankings) :
          rankings[i][2] = AffPerO2(rankings[i][1], ThT_K)
    /\ \A i \in 1..Len(df) : \A k \in 1..Len(COMPARISON_OXIDES) :
          LET n == COMPARISON_OXIDES[k].name
          IN  /\ df[i]["dG_" \o n \o "_per_O2"]
                    = RatMul(calc_dGf_per_O2(n, df[i]["T_K"]), JPerKJ)
              /\ df[i]["dG_" \o n \o "_per_O2"]
                    = RatMul(AffPerO2(n, df[i]["T_K"]), JPerKJ)

\* C23: the linear model is the same wherever it is embedded: A, B and the O2
\* factor agree between cu_ceramic_affinity, oxide_data and COMPARISON_OXIDES,
\* the factor is the one of process_tc_data and 1 / oxide_per_O2 of OXIDES, and
\* every per-mole-O2 value a script computes is the one the others give
\* (compute_cu_o_data in J, the others in kJ).
C23_OneLinearModel == SameLinearModel /\ SameLinearOutputs

\* compute_cu_o_data has its table, with an Al2O3 column away from zero
C23_Witness ==
    /\ prog = "compute_cu_o_data"
    /\ Len(df) = N_POINTS
    /\ RatLt(df[N_POINTS]["dG_Al2O3_per_O2"], RatInt(-700000))


---------------------------------------------------------------------------
(* extract_oxide_gibbs: the O2 reference.                                  *)

\* the O2 block of the script is over
ExO2Over ==
    /\ prog = "extract_oxide_gibbs"
    /\ pc \in {"ex_oxide_select", "ex_metal", "ex_oxide", "ex_write", "ex_done"}

\* G_O2 when every O2 calculation succeeded
ExComputedO2 == [T \in ExTempSet |-> SvcO2GM(T)]

\* G_O2 is whole, and all computed or all zero; every recorded dG used it
O2ReferenceWhole ==
    ExO2Over =>
        /\ DOMAIN G_O2 = ExTempSet
        /\ G_O2 = ExComputedO2 \/ G_O2 = ExZeroO2
        /\ \A o \in 1..ExOxideCount : \A T \in ExTempSet :
              DGRecorded(o, T) =>
                  results[T][Col("dG_", OXIDES[o].name, "_per_O2")].v =
                      DGPerO2(OXIDES[o],
                              results[T][Col("GM_", OXIDES[o].name, "")].v,
                              results[T][Col("G_metal_", OXIDES[o].name, "")].v,
                              G_O2[T])

\* a failed O2 calculation leaves the zero reference, and the reference does
\* not change once the oxides are being processed
O2ReferenceSettled ==
    /\ ExO2Fails => G_O2' = ExZeroO2
    /\ ExO2Over => G_O2' = G_O2

\* C24: in extract_oxide_gibbs the O2 reference is all or nothing: before the
\* first oxide G_O2 has an entry for every grid temperature, all computed or,
\* after any failed O2 calculation, all zero, and every dG uses it.
C24_O2AllOrNothing == []O2ReferenceWhole /\ [][O2ReferenceSettled]_vars

\* the zero reference is in use although the service has non-zero O2
\* energies, and Cu2O has a dG at every grid temperature
C24_Witness ==
    /\ ExO2Over
    /\ G_O2 = ExZeroO2
    /\ ExComputedO2 # ExZeroO2
    /\ \A T \in ExTempSet : DGRecorded(1, T)


---------------------------------------------------------------------------
(* process_oxide: the choice of the temperature and Gibbs energy columns.  *)

\* what the column named `name` (after strip) holds
PoHolds(name) ==
    PoColumnPool[CHOOSE i \in 1..Len(PoColumnPool) :
                    StrStrip(PoColumnPool[i].name) = name].holds

\* some column name of the header contains ch, case-insensitively, after strip
PoHasColumnWith(ch, columns) ==
    \E i \in 1..Len(columns) : StrIn(ch, StrUpper(StrStrip(columns[i])))

\* C25: for every header with a column name containing 'T' and one containing
\* 'G', process_oxide selects two different columns, t_col the temperature
\* column and g_col the Gibbs energy column.
C25_DistinctColumns ==
    (/\ prog = "process_oxide"
     /\ PoHasColumnWith("T", callArgs.columns)
     /\ PoHasColumnWith("G", callArgs.columns)) =>
        /\ pc = "po_selected" =>
              /\ callRet[1] # callRet[2]
              /\ PoHolds(callRet[1]) = "temperature"
              /\ PoHolds(callRet[2]) = "gibbs"

===========================================================================
